---- MODULE Spec2Model ----
(***************************************************************************)
(* A model of the Shorlabs backend: the deployment pipeline                *)
(* (api/routes/projects.py, deployer/orchestrator.py), the State Store     *)
(* (api/db/dynamodb.py), the queue consumer (api/main.py), the compute     *)
(* provisioner and the environment-variable filter                         *)
(* (deployer/aws/lambda_service.py, deployer/aws/codebuild.py), the task   *)
(* dispatcher and its queue (api/routes/projects.py), the event entry      *)
(* point (api/main.py) and the Usage Aggregator (api/usage_aggregator.py). *)
(*                                                                         *)
(* Python strings whose characters the code inspects (URLs, project ids,   *)
(* environment-variable keys) are sequences of one-character strings.      *)
(***************************************************************************)
EXTENDS Integers, Sequences, FiniteSets, TLC

VARIABLES
    projects,      \* State Store, projects table: project_id -> item
    deployments,   \* State Store, deployments table: a set of items
    builds,        \* build service: the ids of the builds it has started
    runs,          \* pipeline runs (_run_deployment_sync): run -> locals
    now,           \* wall clock, in seconds
    sqs,           \* queue consumer (_handle_sqs_event): its batch and locals
    resources,     \* compute functions and registries, with the projects
                   \* whose deployments created or updated them
    fn,            \* compute platform: the function of one project
    calls,         \* deployment requests provisioning that function
    codebuild,     \* build service: the start_build requests it received
    env,           \* one call of filter_env_vars: its input and result
    environ,       \* os.environ of the API process
    queue,         \* the deployment queue (a FIFO queue of the queue service)
    dispatched,    \* the calls of send_deployment_to_sqs so far
    events,        \* the event entry point (handle_events): events handled
    usage,         \* the Usage Aggregator: telemetry read and track calls
    window,        \* one call of _get_aggregation_window_seconds
    alloc,         \* subdomains: the stored items and the creations in flight
    removal,       \* one DELETE /api/projects/{project_id} request
    detect,        \* one call of detect_runtime_from_github
    listing        \* the last two calls of list_deployments

pipeVars == <<projects, deployments, builds, runs, now>>
lambdaVars == <<fn, calls, codebuild>>
extVars == <<window, alloc, removal, detect, listing>>
auxVars == <<environ, queue, dispatched, events, usage, extVars>>
others == <<sqs, resources, lambdaVars, env, auxVars>>
vars == <<pipeVars, others>>

\* Python None, for values that are otherwise sequences or records
None == <<>>

-----------------------------------------------------------------------------
(* Bounds of the model                                                     *)

MaxRuns == 2       \* pipeline runs dispatched in one behaviour

-----------------------------------------------------------------------------
(* Python string operations                                                *)

LowerLetters == <<"a","b","c","d","e","f","g","h","i","j","k","l","m",
                  "n","o","p","q","r","s","t","u","v","w","x","y","z">>
UpperLetters == <<"A","B","C","D","E","F","G","H","I","J","K","L","M",
                  "N","O","P","Q","R","S","T","U","V","W","X","Y","Z">>
Digits == {"0","1","2","3","4","5","6","7","8","9"}

\* str.upper / str.lower of one character
UpperChar(c) ==
    IF \E i \in 1..26 : LowerLetters[i] = c
    THEN UpperLetters[CHOOSE i \in 1..26 : LowerLetters[i] = c]
    ELSE c
LowerChar(c) ==
    IF \E i \in 1..26 : UpperLetters[i] = c
    THEN LowerLetters[CHOOSE i \in 1..26 : UpperLetters[i] = c]
    ELSE c
upper(s) == [i \in 1..Len(s) |-> UpperChar(s[i])]
lower(s) == [i \in 1..Len(s) |-> LowerChar(s[i])]

\* str.isalnum of one character
isalnum(c) ==
    \/ c \in Digits
    \/ \E i \in 1..26 : LowerLetters[i] = c \/ UpperLetters[i] = c

startswith(s, p) == Len(s) >= Len(p) /\ SubSeq(s, 1, Len(p)) = p
endswith(s, p) == Len(s) >= Len(p) /\ SubSeq(s, Len(s) - Len(p) + 1, Len(s)) = p

\* s.strip(c) for a single character c
RECURSIVE lstrip(_, _)
lstrip(s, c) == IF s # <<>> /\ Head(s) = c THEN lstrip(Tail(s), c) ELSE s
RECURSIVE rstrip(_, _)
rstrip(s, c) ==
    IF s # <<>> /\ s[Len(s)] = c THEN rstrip(SubSeq(s, 1, Len(s) - 1), c) ELSE s
strip(s, c) == rstrip(lstrip(s, c), c)

\* s.split(c)[-1]: the part after the last c
RECURSIVE LastSegment(_, _)
LastSegment(s, c) ==
    IF \E i \in 1..Len(s) : s[i] = c
    THEN LastSegment(SubSeq(s, (CHOOSE i \in 1..Len(s) : s[i] = c) + 1, Len(s)), c)
    ELSE s

\* while "--" in name: name = name.replace("--", "-")
RECURSIVE CollapseHyphens(_)
CollapseHyphens(s) ==
    IF \E i \in 1..(Len(s) - 1) : s[i] = "-" /\ s[i + 1] = "-"
    THEN LET i == CHOOSE j \in 1..(Len(s) - 1) : s[j] = "-" /\ s[j + 1] = "-"
         IN  CollapseHyphens(SubSeq(s, 1, i) \o SubSeq(s, i + 2, Len(s)))
    ELSE s

-----------------------------------------------------------------------------
(* Resource names                                                          *)

\* github_url = f"https://github.com/{request.github_repo}"
GithubUrl(github_repo) ==
    [host |-> "https://github.com", path |-> <<"/">> \o github_repo]

\* urlparse(github_url).path
UrlPath(github_url) == github_url.path

DotGit == <<".", "g", "i", "t">>

extract_project_name(github_url) ==
    LET path0 == strip(UrlPath(github_url), "/")
        path1 == IF endswith(path0, DotGit)
                 THEN SubSeq(path0, 1, Len(path0) - 4) ELSE path0
        name0 == LastSegment(path1, "/")
        name1 == [i \in 1..Len(name0) |->
                    IF isalnum(name0[i]) THEN LowerChar(name0[i]) ELSE "-"]
    IN  strip(CollapseHyphens(name1), "-")

\* uuid.uuid4().hex[:12]
ProjectIdLen == 12
\* project_id[:8]
NamePrefixLen == 8

\* project_name = f"{repo_name}-{project_id[:8]}"
ProjectName(github_url, project_id) ==
    IF project_id # None
    THEN extract_project_name(github_url) \o <<"-">>
            \o SubSeq(project_id, 1, IF Len(project_id) < NamePrefixLen
                                     THEN Len(project_id) ELSE NamePrefixLen)
    ELSE extract_project_name(github_url)

Shorlabs == <<"s","h","o","r","l","a","b","s">>
get_lambda_function_name(project_name) == Shorlabs \o <<"-">> \o project_name
get_ecr_repo_name(project_name) == Shorlabs \o <<"-">> \o project_name

-----------------------------------------------------------------------------
(* State Store (api/db/dynamodb.py)                                        *)

Repos == { <<"o","/","A","p","p">>, <<"o","/","a","_","b",".","g","i","t">> }

\* The repository of the pipeline specification's projects
PipelineRepos == { <<"o","/","A","p","p">> }

\* Values generate_project_id can return; the first two share their first
\* eight characters.
ProjectIdSpace ==
    { <<"a","b","c","d","e","f","0","1","0","0","0","1">>,
      <<"a","b","c","d","e","f","0","1","0","0","0","2">>,
      <<"9","b","c","d","e","f","0","1","0","0","0","1">> }

\* The project of the pipeline specification
PipelineProjectIds ==
    { <<"a","b","c","d","e","f","0","1","0","0","0","1">> }

FirstProject == CHOOSE p \in PipelineProjectIds : TRUE
FirstRepo == CHOOSE g \in PipelineRepos : TRUE
FirstName == ProjectName(GithubUrl(FirstRepo), FirstProject)

Runs == 1..MaxRuns

\* datetime.utcnow().isoformat()
isoformat(t) == <<t>>

\* item written by create_project
NewProject_Live(github_repo, t) ==
    [ status |-> "LIVE",
      function_url |-> None,
      function_name |-> None,
      github_url |-> GithubUrl(github_repo),
      created_at |-> isoformat(t) ]
NewProject(github_repo, t) ==
    [ status |-> "PENDING",
      function_url |-> None,
      function_name |-> None,
      github_url |-> GithubUrl(github_repo),
      created_at |-> isoformat(t) ]

\* table.put_item(Item=item), keyed by project_id
create_project(projs, project_id, github_repo, t) ==
    [p \in DOMAIN projs \cup {project_id} |->
        IF p = project_id THEN NewProject(github_repo, t) ELSE projs[p]]

get_project(projs, project_id) ==
    IF project_id \in DOMAIN projs THEN projs[project_id] ELSE None

\* updates["updated_at"] = datetime.utcnow().isoformat(); SET #k = :k for
\* every key of updates (an item modelled without updated_at stays without it)
update_project_IfNewer(projs, project_id, updates, t) ==
    IF get_project(projs, project_id) = None
    THEN projs
    ELSE IF "status" \in DOMAIN updates /\ updates.status = "FAILED"
            /\ projs[project_id].status = "LIVE"
    THEN projs
    ELSE [projs EXCEPT ![project_id] =
            [f \in DOMAIN @ |->
                IF f = "updated_at" THEN isoformat(t)
                ELSE IF f \in DOMAIN updates THEN updates[f] ELSE @[f]]]
update_project_PutItem(projs, project_id, updates, t) ==
    IF get_project(projs, project_id) = None
    THEN projs
    ELSE [projs EXCEPT ![project_id] =
            [f \in DOMAIN @ |->
                IF f = "updated_at" THEN isoformat(t)
                ELSE IF f \in DOMAIN updates THEN updates[f]
                ELSE IF f \in {"github_url", "created_at"} THEN @[f]
                ELSE None]]
update_project(projs, project_id, updates, t) ==
    IF get_project(projs, project_id) = None
    THEN projs
    ELSE [projs EXCEPT ![project_id] =
            [f \in DOMAIN @ |->
                IF f = "updated_at" THEN isoformat(t)
                ELSE IF f \in DOMAIN updates THEN updates[f] ELSE @[f]]]

\* "SK": f"DEPLOY#{timestamp}#{deploy_id}"
DeploySK_NoId(timestamp, deploy_id) == <<"DEPLOY", timestamp>>
DeploySK(timestamp, deploy_id) == <<"DEPLOY", timestamp, deploy_id>>

\* table.put_item: an item with the same key is replaced
put_item(table, item) ==
    {d \in table : ~(d.project_id = item.project_id /\ d.SK = item.SK)}
        \cup {item}

create_deployment_WithoutBuild(deps, project_id, build_id, deploy_id, t) ==
    put_item(deps,
        [ project_id |-> project_id,
          SK |-> DeploySK(t, deploy_id),
          deploy_id |-> deploy_id,
          build_id |-> None,
          status |-> "IN_PROGRESS",
          started_at |-> isoformat(t),
          finished_at |-> None ])
create_deployment(deps, project_id, build_id, deploy_id, t) ==
    put_item(deps,
        [ project_id |-> project_id,
          SK |-> DeploySK(t, deploy_id),
          deploy_id |-> deploy_id,
          build_id |-> build_id,
          status |-> "IN_PROGRESS",
          started_at |-> isoformat(t),
          finished_at |-> None ])

list_deployments(deps, project_id) == {d \in deps : d.project_id = project_id}

update_deployment(deps, project_id, deploy_id, updates) ==
    IF \E d \in list_deployments(deps, project_id) : d.deploy_id = deploy_id
    THEN LET d == CHOOSE x \in list_deployments(deps, project_id) :
                      x.deploy_id = deploy_id
         IN  (deps \ {d}) \cup
             { [f \in DOMAIN d |->
                  IF f \in DOMAIN updates THEN updates[f] ELSE d[f]] }
    ELSE deps

\* generate_deploy_id draws nine random characters; the model gives every run
\* its own id (random ids are taken to be unique).
generate_deploy_id(r) == <<"deploy", r>>

-----------------------------------------------------------------------------
(* Pipeline run: _run_deployment_sync and deploy_project                   *)

\* buildStatus values of a build that has ended
TerminalStatuses == {"SUCCEEDED", "FAILED", "FAULT", "STOPPED", "TIMED_OUT"}

IdleRun ==
    [ pc |-> "idle",
      project_id |-> None,
      github_url |-> None,
      github_token |-> FALSE,
      deployment |-> None,        \* deploy_id of the item on_build_start made
      build_id |-> None,
      project_name |-> None,
      function_url |-> None,
      polled |-> FALSE,           \* wait_for_build has read the status
      status |-> "",              \* the buildStatus it read last (kept
                                  \* until the failure handler's first write)
      failed |-> "",              \* what raised inside the try block
      log |-> <<>> ]              \* calls made and writes applied so far in
                                  \* the frame (of the polls, the first)

Logged(run, event) == [run EXCEPT !.log = Append(@, event)]

\* an exception inside the try block: control moves to the except block,
\* which first tests `if deployment:`
Raise_SkipDeployment(run, cause) ==
    [run EXCEPT !.failed = cause, !.pc = "except_proj"]
Raise(run, cause) ==
    [run EXCEPT !.failed = cause,
                !.pc = IF run.deployment # None THEN "except_dep"
                       ELSE "except_proj"]

\* _run_deployment_sync returns (pc "returned") or lets the handler's own
\* exception out (pc "raised"): its frame ends. What stays observable of the
\* run is its project, the Deployment it created, and whether its try block
\* had failed: at the credential check ("token"), in a State Store write
\* ("store") or in another call of the pipeline ("step").
FailureClass(cause) ==
    IF cause \in {"", "token", "store"} THEN cause ELSE "step"

EndFrame(run, pc) ==
    [IdleRun EXCEPT !.pc = pc,
                    !.project_id = run.project_id,
                    !.deployment = run.deployment,
                    !.failed = FailureClass(run.failed)]

\* the thread or queue consumer that calls _run_deployment_sync
StartRun(r, project_id, github_url, github_token) ==
    runs' = [runs EXCEPT ![r] =
                [IdleRun EXCEPT !.pc = "start",
                                !.project_id = project_id,
                                !.github_url = github_url,
                                !.github_token = github_token]]

IsFirstIdle(r) ==
    /\ runs[r].pc = "idle"
    /\ \A q \in Runs : q < r => runs[q].pc # "idle"

\* POST /api/projects, dispatched to a local background thread
create_new_project(project_id, github_repo, github_token) ==
    /\ project_id \notin DOMAIN projects
    /\ \E r \in Runs :
        /\ IsFirstIdle(r)
        /\ StartRun(r, project_id, GithubUrl(github_repo), github_token)
    /\ projects' = create_project(projects, project_id, github_repo, now)
    /\ UNCHANGED <<deployments, builds, now, others>>

\* POST /api/projects/{project_id}/redeploy
redeploy_project(project_id, github_token) ==
    /\ project_id \in DOMAIN projects
    /\ \E r \in Runs :
        /\ IsFirstIdle(r)
        /\ StartRun(r, project_id, projects[project_id].github_url, github_token)
    /\ UNCHANGED <<projects, deployments, builds, now, others>>

\* update_project(project_id, {"status": "BUILDING"})
RunUpdateBuilding(r) ==
    /\ runs[r].pc = "start"
    /\ \E ok \in BOOLEAN :
        IF ok
        THEN /\ projects' = update_project(projects, runs[r].project_id,
                                           [status |-> "BUILDING"], now)
             /\ runs' = [runs EXCEPT ![r] =
                            [Logged(@, "proj_BUILDING") EXCEPT !.pc = "deploy"]]
        ELSE /\ runs' = [runs EXCEPT ![r] = Raise(@, "store")]
             /\ UNCHANGED projects
    /\ UNCHANGED <<deployments, builds, now, others>>

\* the id the build service gives the build that run r starts (the service
\* never gives one id to two builds)
NewBuildId(r) == <<"build", r>>

\* deploy_project up to start_build: the credential check, the resource name,
\* Step 1 detect_runtime_from_github (its probes catch every error), Step 2
\* create_ecr_repository, Step 3 get_or_create_codebuild_role and
\* create_or_update_codebuild_project, Step 4 start_build. `raises` names the
\* call that raises, or is "" when start_build returns a build id.
PreBuildCalls == <<"detect", "registry", "build_setup", "start_build">>
PreBuildRaises == {"registry", "build_setup", "start_build"}

CallsUpTo(call) ==
    SubSeq(PreBuildCalls, 1, CHOOSE i \in 1..4 : PreBuildCalls[i] = call)

\* what deploy_project does once start_build has returned build_id
AfterStartBuild_NoCallback(run, build_id) ==
    [run EXCEPT !.pc = "wait", !.build_id = build_id]
AfterStartBuild(run, build_id) ==
    [run EXCEPT !.pc = "callback", !.build_id = build_id]

DeployProject(r, raises) ==
    /\ runs[r].pc = "deploy"
    /\ IF ~runs[r].github_token
       THEN /\ raises = "token"
            /\ runs' = [runs EXCEPT ![r] = Raise(@, "token")]
            /\ UNCHANGED builds
       ELSE LET named == [runs[r] EXCEPT !.project_name =
                            ProjectName(runs[r].github_url, runs[r].project_id)]
            IN  IF raises \in PreBuildRaises
                THEN /\ runs' = [runs EXCEPT ![r] =
                            Raise([named EXCEPT !.log = @ \o CallsUpTo(raises)],
                                  raises)]
                     /\ UNCHANGED builds
                ELSE /\ raises = ""
                     /\ builds' = builds \cup {NewBuildId(r)}
                     /\ runs' = [runs EXCEPT ![r] =
                            AfterStartBuild(
                                [named EXCEPT !.log = @ \o PreBuildCalls],
                                NewBuildId(r))]
    /\ UNCHANGED <<projects, deployments, now, others>>

\* What the clock can show when a deployment is created: the second the model
\* is in, or, if a deployment was already created in that second, the next
\* one. Only the order and the equality of timestamps matter, so seconds in
\* which no deployment is created are not told apart.
ClockReadings ==
    IF \E d \in deployments : d.started_at = isoformat(now)
    THEN {now, now + 1} ELSE {now}

\* on_build_start(build_id): deployment = create_deployment(project_id, build_id)
on_build_start(r) ==
    /\ runs[r].pc = "callback"
    /\ now' \in ClockReadings
    /\ \E ok \in BOOLEAN :
        IF ok
        THEN /\ deployments' = create_deployment(deployments, runs[r].project_id,
                                    runs[r].build_id, generate_deploy_id(r), now')
             /\ runs' = [runs EXCEPT ![r] =
                            [Logged(@, "callback") EXCEPT
                                !.pc = "wait",
                                !.deployment = generate_deploy_id(r)]]
        ELSE /\ runs' = [runs EXCEPT ![r] =
                            Raise(Logged(@, "callback"), "store")]
             /\ UNCHANGED deployments
    /\ UNCHANGED <<projects, builds, others>>

\* Step 5: one iteration of wait_for_build's loop, which reads `status` from
\* the build service, and deploy_project's
\* `if not wait_for_build(build_id): raise Exception("Build failed")`;
\* status "raise" stands for batch_get_builds raising. An iteration that
\* reads IN_PROGRESS sleeps and leaves the loop where it was.
Polled(run) == IF run.polled THEN run ELSE [Logged(run, "poll") EXCEPT !.polled = TRUE]

Read(run, status) == [Polled(run) EXCEPT !.status = status]

wait_for_build_UntilFailed(r, status) ==
    /\ runs[r].pc = "wait"
    /\ runs' = [runs EXCEPT ![r] =
                  IF status = "raise" THEN Raise(Read(@, ""), "wait_raise")
                  ELSE IF status = "IN_PROGRESS" THEN Read(@, status)
                  ELSE IF status # "FAILED"
                       THEN [Read(@, status) EXCEPT !.pc = "provision"]
                  ELSE Raise(Read(@, status), "wait_false")]
    /\ UNCHANGED <<projects, deployments, builds, now, others>>
wait_for_build(r, status) ==
    /\ runs[r].pc = "wait"
    /\ runs' = [runs EXCEPT ![r] =
                  IF status = "raise" THEN Raise(Read(@, ""), "wait_raise")
                  ELSE IF status = "IN_PROGRESS" THEN Read(@, status)
                  ELSE IF status = "SUCCEEDED"
                       THEN [Read(@, status) EXCEPT !.pc = "provision"]
                  ELSE Raise(Read(@, status), "wait_false")]
    /\ UNCHANGED <<projects, deployments, builds, now, others>>

\* response["FunctionUrl"] of the function named full_name
FunctionUrl(full_name) == <<"https://">> \o full_name

\* Step 6: get_or_create_lambda_role, create_or_update_lambda
Provision_ThenLive(r) ==
    /\ runs[r].pc = "provision"
    /\ \E ok \in BOOLEAN :
        runs' = [runs EXCEPT ![r] =
                    IF ok
                    THEN [Logged(@, "provision") EXCEPT
                            !.function_url = FunctionUrl(
                                get_lambda_function_name(runs[r].project_name)),
                            !.pc = "proj_live"]
                    ELSE Raise(Logged(@, "provision"), "provision")]
    /\ UNCHANGED <<projects, deployments, builds, now, others>>
Provision(r) ==
    /\ runs[r].pc = "provision"
    /\ \E ok \in BOOLEAN :
        runs' = [runs EXCEPT ![r] =
                    IF ok
                    THEN [Logged(@, "provision") EXCEPT
                            !.function_url = FunctionUrl(
                                get_lambda_function_name(runs[r].project_name)),
                            !.pc = IF runs[r].deployment # None
                                   THEN "dep_succeeded" ELSE "proj_live"]
                    ELSE Raise(Logged(@, "provision"), "provision")]
    /\ UNCHANGED <<projects, deployments, builds, now, others>>

\* update_deployment(project_id, deploy_id, {"status": "SUCCEEDED", ...})
UpdateDeploymentSucceeded(r) ==
    /\ runs[r].pc = "dep_succeeded"
    /\ \E ok \in BOOLEAN :
        IF ok
        THEN /\ deployments' = update_deployment(deployments,
                                    runs[r].project_id, runs[r].deployment,
                                    [status |-> "SUCCEEDED",
                                     finished_at |-> isoformat(now)])
             /\ runs' = [runs EXCEPT ![r] =
                            [Logged(@, "dep_SUCCEEDED") EXCEPT !.pc = "proj_live"]]
        ELSE /\ runs' = [runs EXCEPT ![r] = Raise(@, "store")]
             /\ UNCHANGED deployments
    /\ UNCHANGED <<projects, builds, now, others>>

\* update_project(project_id, {"status": "LIVE", "function_url", "function_name"})
UpdateProjectLive(r) ==
    /\ runs[r].pc = "proj_live"
    /\ \E ok \in BOOLEAN :
        IF ok
        THEN /\ projects' = update_project(projects, runs[r].project_id,
                                [status |-> "LIVE",
                                 function_url |-> runs[r].function_url,
                                 function_name |-> runs[r].project_name], now)
             /\ runs' = [runs EXCEPT ![r] =
                            EndFrame(@, "returned")]
        ELSE /\ runs' = [runs EXCEPT ![r] = Raise(@, "store")]
             /\ UNCHANGED projects
    /\ UNCHANGED <<deployments, builds, now, others>>

\* except: if deployment: update_deployment(..., {"status": "FAILED", ...})
ExceptUpdateDeployment(r) ==
    /\ runs[r].pc = "except_dep"
    /\ \E ok \in BOOLEAN :
        IF ok
        THEN /\ deployments' = update_deployment(deployments,
                                    runs[r].project_id, runs[r].deployment,
                                    [status |-> "FAILED",
                                     finished_at |-> isoformat(now)])
             /\ runs' = [runs EXCEPT ![r] =
                            [Logged(@, "dep_FAILED") EXCEPT !.pc = "except_proj",
                                                            !.status = ""]]
        ELSE /\ runs' = [runs EXCEPT ![r] = EndFrame(@, "raised")]
             /\ UNCHANGED deployments
    /\ UNCHANGED <<projects, builds, now, others>>

\* except: update_project(project_id, {"status": "FAILED"})
ExceptUpdateProject(r) ==
    /\ runs[r].pc = "except_proj"
    /\ \E ok \in BOOLEAN :
        IF ok
        THEN /\ projects' = update_project(projects, runs[r].project_id,
                                           [status |-> "FAILED"], now)
             /\ runs' = [runs EXCEPT ![r] =
                            EndFrame(@, "returned")]
        ELSE /\ runs' = [runs EXCEPT ![r] = EndFrame(@, "raised")]
             /\ UNCHANGED projects
    /\ UNCHANGED <<deployments, builds, now, others>>

RunStep(r) ==
    \/ RunUpdateBuilding(r)
    \/ \E raises \in PreBuildRaises \cup {"token", ""} : DeployProject(r, raises)
    \/ on_build_start(r)
    \/ \E status \in TerminalStatuses \cup {"IN_PROGRESS", "raise"} :
            wait_for_build(r, status)
    \/ Provision(r)
    \/ UpdateDeploymentSucceeded(r)
    \/ UpdateProjectLive(r)
    \/ ExceptUpdateDeployment(r)
    \/ ExceptUpdateProject(r)

-----------------------------------------------------------------------------
(* Environment-variable filter (deployer/aws/lambda_service.py)            *)

MaxEnvLen == 3     \* items of an environment-variable dict

RESERVED_ENV_PREFIXES ==
    << <<"A","W","S","_">>, <<"L","A","M","B","D","A","_">>,
       <<"_","X","_","A","M","Z","N","_">>,
       <<"_","A","W","S","_","X","R","A","Y","_">>,
       <<"_","H","A","N","D","L","E","R">>,
       <<"_","R","U","N","T","I","M","E","_">> >>

RESERVED_ENV_VARS == << <<"_","H","A","N","D","L","E","R">>, <<"T","Z">> >>

\* key.upper().startswith(RESERVED_ENV_PREFIXES) or key.upper() in RESERVED_ENV_VARS
IsReserved_CaseSensitive(key) ==
    \/ \E i \in DOMAIN RESERVED_ENV_PREFIXES :
            startswith(key, RESERVED_ENV_PREFIXES[i])
    \/ \E i \in DOMAIN RESERVED_ENV_VARS : key = RESERVED_ENV_VARS[i]
IsReserved(key) ==
    \/ \E i \in DOMAIN RESERVED_ENV_PREFIXES :
            startswith(upper(key), RESERVED_ENV_PREFIXES[i])
    \/ \E i \in DOMAIN RESERVED_ENV_VARS : upper(key) = RESERVED_ENV_VARS[i]

\* A dict is [items |-> the sequence of its (key, value) pairs in insertion
\* order], no key twice.
EmptyDict == [items |-> <<>>]
Keys(d) == [i \in DOMAIN d.items |-> d.items[i][1]]
HasKey(d, key) == \E i \in DOMAIN d.items : d.items[i][1] = key
Lookup(d, key) == d.items[CHOOSE i \in DOMAIN d.items : d.items[i][1] = key][2]

\* d[key] = value
DictSet(d, key, value) ==
    IF HasKey(d, key)
    THEN [items |-> [i \in DOMAIN d.items |->
                        IF d.items[i][1] = key THEN <<key, value>> ELSE d.items[i]]]
    ELSE [items |-> Append(d.items, <<key, value>>)]

\* for key, value in env_vars.items(): skipped.append(key) or filtered[key] = value
RECURSIVE FilterLoop(_, _, _)
FilterLoop(items, filtered, skipped) ==
    IF items = <<>>
    THEN <<filtered, skipped>>
    ELSE LET key == Head(items)[1]
             value == Head(items)[2]
         IN  IF IsReserved(key)
             THEN FilterLoop(Tail(items), filtered, Append(skipped, key))
             ELSE FilterLoop(Tail(items), DictSet(filtered, key, value), skipped)

\* filter_env_vars(env_vars) -> (filtered_vars, skipped_vars)
filter_env_vars(env_vars) ==
    IF env_vars = None \/ env_vars = EmptyDict
    THEN <<EmptyDict, <<>> >>
    ELSE FilterLoop(env_vars.items, EmptyDict, <<>>)

\* Keys and values the filter is applied to
AWS_FOO == <<"A","W","S","_","F","O","O">>
MY_VAR == <<"M","Y","_","V","A","R">>
HANDLER == <<"_","H","A","N","D","L","E","R">>
SampleKeys ==
    { AWS_FOO, MY_VAR, HANDLER, <<"a","w","s","_","i","d">>,
      <<"t","z">>, <<"T","Z","X">>, <<"A","W","S">> }
SampleValues == <<"x", "y", "z">>

\* The dicts of at most MaxEnvLen items over the sample keys; the items of a
\* dict take the sample values in turn, so that no two neighbours share one.
Dicts ==
    UNION { { [items |-> [i \in 1..n |-> <<ks[i], SampleValues[((i - 1) % 3) + 1]>>]] :
                ks \in { f \in [1..n -> SampleKeys] :
                            \A i, j \in 1..n : i # j => f[i] # f[j] } } :
            n \in 0..MaxEnvLen }

EnvInputs == {None} \cup Dicts

IdleEnv == [env_vars |-> None, result |-> None, called |-> FALSE]

\* filtered, skipped = filter_env_vars(env_vars)
CallFilterEnvVars ==
    /\ ~env.called
    /\ env' = [env EXCEPT !.result = filter_env_vars(env.env_vars),
                          !.called = TRUE]
    /\ UNCHANGED <<pipeVars, sqs, resources, lambdaVars, auxVars>>

-----------------------------------------------------------------------------
(* Build request and compute provisioner                                   *)
(* (deployer/aws/codebuild.py, deployer/aws/lambda_service.py)             *)

MaxCalls == 2      \* deployment requests that provision the function

Calls == 1..MaxCalls

DEFAULT_MEMORY == 1024
DEFAULT_TIMEOUT == 30
DEFAULT_EPHEMERAL_STORAGE == 512

GITHUB_TOKEN == <<"G","I","T","H","U","B","_","T","O","K","E","N">>

\* env_vars of a deployment request
RequestEnvVars ==
    { None,
      [items |-> << <<AWS_FOO, "x">>, <<MY_VAR, "y">> >>],
      [items |-> << <<<<"t","z">>, "z">> >>] }

\* What start_build hands to the build service: environmentVariablesOverride
\* (GITHUB_TOKEN, then the filtered variables), the keys of the --build-arg
\* flags, and the keys of the ARG/ENV declarations of the image.
start_build(github_token, env_vars) ==
    LET filtered_vars == IF env_vars = None \/ env_vars = EmptyDict
                         THEN EmptyDict
                         ELSE filter_env_vars(env_vars)[1]
    IN  [ environmentVariablesOverride |->
              << [name |-> GITHUB_TOKEN, value |-> github_token] >> \o
              [i \in DOMAIN filtered_vars.items |->
                  [name |-> filtered_vars.items[i][1],
                   value |-> filtered_vars.items[i][2]]],
          build_args |-> Keys(filtered_vars),
          user_args |-> Keys(filtered_vars) ]

\* environment = {"Variables": filtered_env_vars} if filtered_env_vars else None
LambdaEnvironment_Unfiltered(env_vars) ==
    IF env_vars = None \/ env_vars = EmptyDict THEN None
    ELSE [Variables |-> env_vars]
LambdaEnvironment(env_vars) ==
    LET filtered_env_vars ==
            filter_env_vars(IF env_vars = None THEN EmptyDict ELSE env_vars)[1]
    IN  IF filtered_env_vars # EmptyDict
        THEN [Variables |-> filtered_env_vars] ELSE None

\* The function before any deployment has created it
NoFunction ==
    [ exists |-> FALSE,
      State |-> "Active",
      LastUpdateStatus |-> "Successful",
      code_update_of |-> 0,       \* the call whose code update is in flight
      MemorySize |-> 0,
      Timeout |-> 0,
      EphemeralStorage |-> 0,
      Environment |-> None,
      ImageUri |-> None,
      permission |-> FALSE,       \* the statement FunctionURLAllowPublicAccess
      url |-> FALSE,              \* the function has a URL configuration
      url_id |-> 0 ]              \* URL configurations created so far; the
                                  \* platform gives each its own FunctionUrl

\* image_uri, memory, timeout and ephemeral_storage of a deployment request;
\* 0 stands for a value that is not given (None)
LambdaConfig(image_uri, memory, timeout, ephemeral_storage) ==
    [image_uri |-> image_uri, memory |-> memory, timeout |-> timeout,
     ephemeral_storage |-> ephemeral_storage]

\* the deployment requests: env_vars with the configuration
LambdaRequests ==
    { [env_vars |-> None, config |-> LambdaConfig("image:1", 0, 0, 0)],
      [env_vars |-> [items |-> << <<AWS_FOO, "x">>, <<MY_VAR, "y">> >>],
       config |-> LambdaConfig("image:2", 2048, 60, 1024)],
      [env_vars |-> [items |-> << <<<<"t","z">>, "z">> >>],
       config |-> LambdaConfig("image:1", 0, 0, 0)] }

\* memory = memory or DEFAULT_MEMORY, and so on
OrDefault(value, default) == IF value = 0 THEN default ELSE value

IdleCall ==
    [ pc |-> "idle",
      env_vars |-> None,
      config |-> None,
      environment |-> None,
      preceded_by |-> {},         \* the calls that had returned when
                                  \* create_or_update_lambda was entered
      result |-> None,            \* the FunctionUrl returned
      log |-> <<>> ]              \* requests made to the platform, in order

\* response["FunctionUrl"] of the n-th URL configuration of the function
UrlOf(n) == <<"FunctionUrl", n>>

CallRaise(call) == [call EXCEPT !.pc = "raised"]

\* A deployment request reaches Step 4: deploy_project calls start_build
\* without env_vars.
LambdaStartBuild(c, env_vars, config) ==
    /\ calls[c].pc = "idle"
    /\ \A b \in Calls : b < c => calls[b].pc # "idle"
    /\ codebuild' = codebuild \cup {start_build("token", None)}
    /\ calls' = [calls EXCEPT ![c] =
                    [@ EXCEPT !.pc = "get_function", !.env_vars = env_vars,
                              !.config = config]]
    /\ UNCHANGED <<fn, pipeVars, sqs, resources, env, auxVars>>

\* create_or_update_lambda up to lambda_client.get_function
GetFunction_AlwaysCreate(c) ==
    /\ calls[c].pc = "get_function"
    /\ calls' = [calls EXCEPT ![c] =
                    [@ EXCEPT !.environment = LambdaEnvironment(calls[c].env_vars),
                              !.preceded_by = {b \in Calls : calls[b].pc = "done"},
                              !.log = Append(@, "get_function"),
                              !.pc = "create"]]
    /\ UNCHANGED <<fn, codebuild, pipeVars, sqs, resources, env, auxVars>>
GetFunction(c) ==
    /\ calls[c].pc = "get_function"
    /\ calls' = [calls EXCEPT ![c] =
                    [@ EXCEPT !.environment = LambdaEnvironment(calls[c].env_vars),
                              !.preceded_by = {b \in Calls : calls[b].pc = "done"},
                              !.log = Append(@, "get_function"),
                              !.pc = IF fn.exists THEN "update_code" ELSE "create"]]
    /\ UNCHANGED <<fn, codebuild, pipeVars, sqs, resources, env, auxVars>>

\* where create_or_update_lambda goes once update_function_code has returned
AfterUpdateCode_NoWait(call) ==
    [call EXCEPT !.pc = "update_config", !.log = Append(@, "update_code")]
AfterUpdateCode(call) ==
    [call EXCEPT !.pc = "wait_updated", !.log = Append(@, "update_code")]

\* lambda_client.update_function_code; the platform refuses it
\* (ResourceConflictException) while another update is in progress
UpdateFunctionCode(c) ==
    /\ calls[c].pc = "update_code"
    /\ IF fn.LastUpdateStatus = "InProgress" \/ fn.State = "Pending"
       THEN /\ calls' = [calls EXCEPT ![c] =
                            CallRaise([@ EXCEPT !.log = Append(@, "update_code")])]
            /\ UNCHANGED fn
       ELSE /\ fn' = [fn EXCEPT !.LastUpdateStatus = "InProgress",
                                !.code_update_of = c,
                                !.ImageUri = calls[c].config.image_uri]
            /\ calls' = [calls EXCEPT ![c] = AfterUpdateCode(@)]
    /\ UNCHANGED <<codebuild, pipeVars, sqs, resources, env, auxVars>>

\* waiter "function_updated": returns when LastUpdateStatus is Successful,
\* raises when it is Failed or when its attempts run out
WaitFunctionUpdated(c) ==
    /\ calls[c].pc = "wait_updated"
    /\ calls' = [calls EXCEPT ![c] =
                    IF fn.LastUpdateStatus = "Successful"
                    THEN [@ EXCEPT !.pc = "update_config",
                                   !.log = Append(@, "updated")]
                    ELSE CallRaise(@)]
    /\ UNCHANGED <<fn, codebuild, pipeVars, sqs, resources, env, auxVars>>

\* lambda_client.update_function_configuration(**update_config)
UpdateFunctionConfiguration_SetEnvironment(c) ==
    /\ calls[c].pc = "update_config"
    /\ IF fn.LastUpdateStatus = "InProgress"
       THEN /\ calls' = [calls EXCEPT ![c] =
                            CallRaise([@ EXCEPT !.log = Append(@, "update_config")])]
            /\ UNCHANGED fn
       ELSE /\ fn' = [fn EXCEPT
                        !.LastUpdateStatus = "InProgress",
                        !.MemorySize = OrDefault(calls[c].config.memory, DEFAULT_MEMORY),
                        !.Timeout = OrDefault(calls[c].config.timeout, DEFAULT_TIMEOUT),
                        !.EphemeralStorage =
                            OrDefault(calls[c].config.ephemeral_storage,
                                      DEFAULT_EPHEMERAL_STORAGE),
                        !.Environment = calls[c].environment]
            /\ calls' = [calls EXCEPT ![c] =
                            [@ EXCEPT !.pc = "ensure_url",
                                      !.log = Append(@, "update_config")]]
    /\ UNCHANGED <<codebuild, pipeVars, sqs, resources, env, auxVars>>
UpdateFunctionConfiguration(c) ==
    /\ calls[c].pc = "update_config"
    /\ IF fn.LastUpdateStatus = "InProgress"
       THEN /\ calls' = [calls EXCEPT ![c] =
                            CallRaise([@ EXCEPT !.log = Append(@, "update_config")])]
            /\ UNCHANGED fn
       ELSE /\ fn' = [fn EXCEPT
                        !.LastUpdateStatus = "InProgress",
                        !.MemorySize = OrDefault(calls[c].config.memory, DEFAULT_MEMORY),
                        !.Timeout = OrDefault(calls[c].config.timeout, DEFAULT_TIMEOUT),
                        !.EphemeralStorage =
                            OrDefault(calls[c].config.ephemeral_storage,
                                      DEFAULT_EPHEMERAL_STORAGE),
                        !.Environment = IF calls[c].environment # None
                                        THEN calls[c].environment ELSE @]
            /\ calls' = [calls EXCEPT ![c] =
                            [@ EXCEPT !.pc = "ensure_url",
                                      !.log = Append(@, "update_config")]]
    /\ UNCHANGED <<codebuild, pipeVars, sqs, resources, env, auxVars>>

\* except ResourceNotFoundException: lambda_client.create_function
CreateFunction(c) ==
    /\ calls[c].pc = "create"
    /\ IF fn.exists
       THEN /\ calls' = [calls EXCEPT ![c] =
                            CallRaise([@ EXCEPT !.log = Append(@, "create")])]
            /\ UNCHANGED fn
       ELSE /\ fn' = [NoFunction EXCEPT
                        !.exists = TRUE,
                        !.State = "Pending",
                        !.ImageUri = calls[c].config.image_uri,
                        !.MemorySize = OrDefault(calls[c].config.memory, DEFAULT_MEMORY),
                        !.Timeout = OrDefault(calls[c].config.timeout, DEFAULT_TIMEOUT),
                        !.EphemeralStorage =
                            OrDefault(calls[c].config.ephemeral_storage,
                                      DEFAULT_EPHEMERAL_STORAGE),
                        !.Environment = calls[c].environment]
            /\ calls' = [calls EXCEPT ![c] =
                            [@ EXCEPT !.pc = "wait_active",
                                      !.log = Append(@, "create")]]
    /\ UNCHANGED <<codebuild, pipeVars, sqs, resources, env, auxVars>>

\* waiter "function_active"
WaitFunctionActive(c) ==
    /\ calls[c].pc = "wait_active"
    /\ calls' = [calls EXCEPT ![c] =
                    IF fn.State = "Active"
                    THEN [@ EXCEPT !.pc = "ensure_url"]
                    ELSE CallRaise(@)]
    /\ UNCHANGED <<fn, codebuild, pipeVars, sqs, resources, env, auxVars>>

\* return _ensure_function_url(full_name), up to get_function_url_config:
\* the URL found is returned; ResourceNotFoundException leads to its creation
EnsureFunctionUrl_NoLookup(c) ==
    /\ calls[c].pc = "ensure_url"
    /\ calls' = [calls EXCEPT ![c] =
                    [@ EXCEPT !.pc = "add_permission",
                              !.log = Append(@, "ensure_url")]]
    /\ UNCHANGED <<fn, codebuild, pipeVars, sqs, resources, env, auxVars>>
EnsureFunctionUrl(c) ==
    /\ calls[c].pc = "ensure_url"
    /\ calls' = [calls EXCEPT ![c] =
                    IF fn.url
                    THEN [@ EXCEPT !.pc = "done",
                                   !.result = UrlOf(fn.url_id),
                                   !.log = Append(@, "ensure_url")]
                    ELSE [@ EXCEPT !.pc = "add_permission",
                                   !.log = Append(@, "ensure_url")]]
    /\ UNCHANGED <<fn, codebuild, pipeVars, sqs, resources, env, auxVars>>

\* lambda_client.add_permission(StatementId="FunctionURLAllowPublicAccess"):
\* the platform answers ResourceConflictException when the statement exists,
\* which _ensure_function_url passes over
AddPermission(c) ==
    /\ calls[c].pc = "add_permission"
    /\ fn' = [fn EXCEPT !.permission = TRUE]
    /\ calls' = [calls EXCEPT ![c] =
                    [@ EXCEPT !.pc = "create_url",
                              !.log = Append(@, IF fn.permission
                                                THEN "permission_conflict"
                                                ELSE "add_permission")]]
    /\ UNCHANGED <<codebuild, pipeVars, sqs, resources, env, auxVars>>

\* lambda_client.create_function_url_config: the platform answers
\* ResourceConflictException when the function has a URL configuration, and
\* nothing catches it
CreateFunctionUrlConfig(c) ==
    /\ calls[c].pc = "create_url"
    /\ IF fn.url
       THEN /\ calls' = [calls EXCEPT ![c] =
                            CallRaise([@ EXCEPT !.log = Append(@, "create_url")])]
            /\ UNCHANGED fn
       ELSE /\ fn' = [fn EXCEPT !.url = TRUE, !.url_id = @ + 1]
            /\ calls' = [calls EXCEPT ![c] =
                            [@ EXCEPT !.pc = "done",
                                      !.result = UrlOf(fn.url_id + 1),
                                      !.log = Append(@, "create_url")]]
    /\ UNCHANGED <<codebuild, pipeVars, sqs, resources, env, auxVars>>

\* the platform finishes the update in progress
UpdateCompletes(ok) ==
    /\ fn.LastUpdateStatus = "InProgress"
    /\ fn' = [fn EXCEPT !.LastUpdateStatus = IF ok THEN "Successful" ELSE "Failed",
                        !.code_update_of = 0]
    /\ UNCHANGED <<calls, codebuild, pipeVars, sqs, resources, env, auxVars>>

\* the platform finishes creating the function
FunctionActivates(ok) ==
    /\ fn.exists /\ fn.State = "Pending"
    /\ fn' = [fn EXCEPT !.State = IF ok THEN "Active" ELSE "Failed"]
    /\ UNCHANGED <<calls, codebuild, pipeVars, sqs, resources, env, auxVars>>

-----------------------------------------------------------------------------
(* Projects and the resources their deployments name                       *)
(* (deployer/orchestrator.py, api/routes/projects.py)                      *)

\* A compute function or image registry, and a project whose deployment
\* created or updated it
Resource(kind, name, project_id) ==
    [kind |-> kind, name |-> name, project_id |-> project_id]

\* POST /api/projects: generate_project_id and create_project
NameCreateProject(project_id, github_repo) ==
    /\ project_id \notin DOMAIN projects
    /\ projects' = create_project(projects, project_id, github_repo, now)
    /\ UNCHANGED <<deployments, builds, runs, now, resources, sqs, lambdaVars, env, auxVars>>

\* A pipeline run of the project that succeeds: deploy_project derives
\* project_name, creates the registry (Step 2), creates or updates the
\* function (Step 6), and the run stores function_name with status LIVE.
NameDeploy(project_id) ==
    /\ project_id \in DOMAIN projects
    /\ LET project_name == ProjectName(projects[project_id].github_url, project_id)
       IN  /\ resources' = resources \cup
                { Resource("registry", get_ecr_repo_name(project_name), project_id),
                  Resource("function", get_lambda_function_name(project_name),
                           project_id) }
           /\ projects' = update_project(projects, project_id,
                            [status |-> "LIVE",
                             function_url |-> FunctionUrl(
                                    get_lambda_function_name(project_name)),
                             function_name |-> project_name], now)
    /\ UNCHANGED <<deployments, builds, runs, now, sqs, lambdaVars, env, auxVars>>

\* DELETE /api/projects/{project_id}: delete_project_resources deletes the
\* function and the registry named by the stored function_name, or, when none
\* is stored, by the repository alone; delete_project removes the item.
NameDelete(project_id) ==
    /\ project_id \in DOMAIN projects
    /\ LET function_name == projects[project_id].function_name
           project_name == IF function_name # None THEN function_name
                           ELSE extract_project_name(projects[project_id].github_url)
       IN  resources' =
              {x \in resources :
                  ~(\/ x.kind = "function"
                        /\ x.name = get_lambda_function_name(project_name)
                    \/ x.kind = "registry"
                        /\ x.name = get_ecr_repo_name(project_name))}
    /\ projects' = [p \in DOMAIN projects \ {project_id} |-> projects[p]]
    /\ UNCHANGED <<deployments, builds, runs, now, sqs, lambdaVars, env, auxVars>>

-----------------------------------------------------------------------------
(* Queue consumer (api/main.py)                                            *)

MaxBatch == 3      \* messages in one delivered batch

\* record["messageId"] of the k-th record of a batch
MessageId(k) == <<"id", k>>

\* Message bodies: text json.loads rejects, an object without "project_id",
\* and the object send_deployment_to_sqs writes for the stored project.
MessageBodies ==
    { [well_formed |-> FALSE],
      [well_formed |-> TRUE, github_url |-> GithubUrl(FirstRepo)],
      [well_formed |-> TRUE, project_id |-> FirstProject,
       github_url |-> GithubUrl(FirstRepo), github_token |-> TRUE] }

\* json.loads(record.get("body", "{}")) succeeds
Decodes(body) == body.well_formed
\* body["project_id"] and body["github_url"] are there
Deployable(body) ==
    Decodes(body) /\ "project_id" \in DOMAIN body /\ "github_url" \in DOMAIN body

\* body.get(key, default)
Get(body, key, default) == IF key \in DOMAIN body THEN body[key] ELSE default

\* The arguments _handle_sqs_event calls _run_deployment_sync with
ConsumerArgs_DefaultMemory(body) ==
    [ project_id |-> body.project_id,
      github_url |-> body.github_url,
      github_token |-> Get(body, "github_token", FALSE),
      root_directory |-> Get(body, "root_directory", "./"),
      start_command |-> Get(body, "start_command",
                            "uvicorn main:app --host 0.0.0.0 --port 8080"),
      env_vars |-> Get(body, "env_vars", None),
      memory |-> 1024,
      timeout |-> Get(body, "timeout", 30),
      ephemeral_storage |-> Get(body, "ephemeral_storage", 512) ]
ConsumerArgs(body) ==
    [ project_id |-> body.project_id,
      github_url |-> body.github_url,
      github_token |-> Get(body, "github_token", FALSE),
      root_directory |-> Get(body, "root_directory", "./"),
      start_command |-> Get(body, "start_command",
                            "uvicorn main:app --host 0.0.0.0 --port 8080"),
      env_vars |-> Get(body, "env_vars", None),
      memory |-> Get(body, "memory", 1024),
      timeout |-> Get(body, "timeout", 30),
      ephemeral_storage |-> Get(body, "ephemeral_storage", 512) ]

\* The batches the queue delivers: one to MaxBatch records, of which no more
\* than MaxRuns start a pipeline run
Batches ==
    UNION { { b \in [1..n -> MessageBodies] :
                Cardinality({k \in 1..n : Deployable(b[k])}) <= MaxRuns } :
            n \in 1..MaxBatch }

IdleSqs ==
    [ st |-> "idle",
      records |-> <<>>,           \* event["Records"]: the bodies, by position
      i |-> 0,                    \* the record the loop is at
      run |-> 0,                  \* the run _run_deployment_sync is in
      run_of |-> <<>>,            \* per record handled: its run, or 0
      failed_message_ids |-> <<>>,
      response |-> None ]

\* _handle_sqs_event(event) is entered
ReceiveBatch(records) ==
    /\ sqs.st = "idle"
    /\ sqs' = [sqs EXCEPT !.st = "loop", !.records = records, !.i = 1]
    /\ UNCHANGED <<pipeVars, resources, lambdaVars, env, auxVars>>

\* except Exception: failed_message_ids.append(message_id); the loop goes on
OnException_StopBatch(s, run) ==
    [s EXCEPT !.failed_message_ids = Append(@, MessageId(s.i)),
              !.run_of = Append(@, run),
              !.st = "loop", !.run = 0,
              !.i = Len(s.records) + 1]
OnException(s, run) ==
    [s EXCEPT !.failed_message_ids = Append(@, MessageId(s.i)),
              !.run_of = Append(@, run),
              !.st = "loop", !.run = 0,
              !.i = @ + 1]

\* the try body up to the call of _run_deployment_sync
ProcessRecord ==
    /\ sqs.st = "loop"
    /\ sqs.i <= Len(sqs.records)
    /\ LET body == sqs.records[sqs.i] IN
        IF Deployable(body)
        THEN \E r \in Runs :
                /\ IsFirstIdle(r)
                /\ LET call == ConsumerArgs(body)
                   IN  StartRun(r, call.project_id, call.github_url,
                                call.github_token)
                /\ sqs' = [sqs EXCEPT !.st = "running", !.run = r]
        ELSE /\ sqs' = OnException(sqs, 0)
             /\ UNCHANGED runs
    /\ UNCHANGED <<projects, deployments, builds, now, resources, lambdaVars, env, auxVars>>

\* a step of the run the consumer is in
ConsumerRunStep ==
    /\ sqs.st = "running"
    /\ RunStep(sqs.run)

\* _run_deployment_sync returns, or raises into the consumer's except
AfterRun_ReportFailed ==
    /\ sqs.st = "running"
    /\ runs[sqs.run].pc \in {"returned", "raised"}
    /\ sqs' = IF runs[sqs.run].pc = "raised" \/ runs[sqs.run].failed # ""
              THEN OnException(sqs, sqs.run)
              ELSE [sqs EXCEPT !.run_of = Append(@, sqs.run),
                               !.st = "loop", !.run = 0, !.i = @ + 1]
    /\ UNCHANGED <<pipeVars, resources, lambdaVars, env, auxVars>>
AfterRun ==
    /\ sqs.st = "running"
    /\ runs[sqs.run].pc \in {"returned", "raised"}
    /\ sqs' = IF runs[sqs.run].pc = "raised"
              THEN OnException(sqs, sqs.run)
              ELSE [sqs EXCEPT !.run_of = Append(@, sqs.run),
                               !.st = "loop", !.run = 0, !.i = @ + 1]
    /\ UNCHANGED <<pipeVars, resources, lambdaVars, env, auxVars>>

\* after the loop: batchItemFailures, or statusCode 200
ReturnResponse ==
    /\ sqs.st = "loop"
    /\ sqs.i > Len(sqs.records)
    /\ sqs' = [sqs EXCEPT
                !.st = "done",
                !.response =
                    IF sqs.failed_message_ids # <<>>
                    THEN [batchItemFailures |->
                            [j \in DOMAIN sqs.failed_message_ids |->
                                [itemIdentifier |-> sqs.failed_message_ids[j]]]]
                    ELSE [statusCode |-> 200]]
    /\ UNCHANGED <<pipeVars, resources, lambdaVars, env, auxVars>>

-----------------------------------------------------------------------------
(* Task dispatcher (send_deployment_to_sqs) and the deployment queue       *)

\* os.environ: a variable is unset, or set to a string
Unset == [set |-> FALSE]
SetTo(value) == [set |-> TRUE, value |-> value]
EnvironValues == {Unset, SetTo(""), SetTo("configured")}

\* `not os.environ.get(name)`: unset, or set to the empty string
Missing(v) == ~v.set \/ v.value = ""

\* The two projects of the dispatcher specification, and their repository
QueueProjectIds ==
    { <<"a","b","c","d","e","f","0","1","0","0","0","1">>,
      <<"9","b","c","d","e","f","0","1","0","0","0","1">> }

\* Arguments create_new_project and redeploy_project call the dispatcher
\* with: a request for the first project, which was created without
\* environment variables (create_new_project passes request.env_vars, None)
\* and may have no credential, and one for the second project; the compute
\* settings are not the defaults.
Request(project_id, github_token, env_vars) ==
    [ project_id |-> project_id,
      github_url |-> GithubUrl(FirstRepo),
      github_token |-> github_token,
      root_directory |-> "app",
      start_command |-> "python main.py",
      env_vars |-> env_vars,
      memory |-> 2048,
      timeout |-> 60,
      ephemeral_storage |-> 1024 ]

DispatchArgs ==
    { Request(FirstProject, TRUE, None),
      Request(FirstProject, FALSE, None),
      Request(CHOOSE p \in QueueProjectIds : p # FirstProject, TRUE,
              [items |-> << <<MY_VAR, "y">> >>]) }

\* message_body: the request, with `env_vars or {}`
message_body(args) ==
    [args EXCEPT !.env_vars = IF @ = None \/ @ = EmptyDict THEN EmptyDict ELSE @]

\* JSON text, as the values it denotes
JsonNull == [t |-> "null"]
JsonString(s) == [t |-> "string", v |-> s]
JsonNumber(n) == [t |-> "number", v |-> n]
JsonObject(d) ==
    [t |-> "object",
     v |-> [i \in DOMAIN d.items |-> <<d.items[i][1], JsonString(d.items[i][2])>>]]

\* json.dumps(message_body); the credential is a string or None
json_dumps(body) ==
    [ project_id |-> JsonString(body.project_id),
      github_url |-> JsonString(body.github_url),
      github_token |-> IF body.github_token THEN JsonString("token") ELSE JsonNull,
      root_directory |-> JsonString(body.root_directory),
      start_command |-> JsonString(body.start_command),
      env_vars |-> IF body.env_vars = None THEN JsonNull
                   ELSE JsonObject(body.env_vars),
      memory |-> JsonNumber(body.memory),
      timeout |-> JsonNumber(body.timeout),
      ephemeral_storage |-> JsonNumber(body.ephemeral_storage) ]

\* json.loads of one JSON value
FromJson(j) ==
    IF j.t = "null" THEN None
    ELSE IF j.t = "object"
         THEN [items |-> [i \in DOMAIN j.v |-> <<j.v[i][1], j.v[i][2].v>>]]
         ELSE j.v

\* json.loads(record["body"]) of a message the dispatcher wrote, with the
\* record's messageId; the credential is kept as "there is one"
json_loads(message) ==
    [ well_formed |-> TRUE,
      messageId |-> message.MessageId,
      project_id |-> FromJson(message.MessageBody.project_id),
      github_url |-> FromJson(message.MessageBody.github_url),
      github_token |-> message.MessageBody.github_token.t # "null",
      root_directory |-> FromJson(message.MessageBody.root_directory),
      start_command |-> FromJson(message.MessageBody.start_command),
      env_vars |-> FromJson(message.MessageBody.env_vars),
      memory |-> FromJson(message.MessageBody.memory),
      timeout |-> FromJson(message.MessageBody.timeout),
      ephemeral_storage |-> FromJson(message.MessageBody.ephemeral_storage) ]

\* MessageGroupId="deployments"
MessageGroupId_PerProject(project_id) == project_id
MessageGroupId(project_id) == "deployments"

\* MessageDeduplicationId=f"{project_id}-{int(time.time())}"
MessageDeduplicationId_ProjectOnly(project_id, t) == <<project_id>>
MessageDeduplicationId(project_id, t) == <<project_id, "-", t>>

\* The queue: the messages it holds in the order it accepted them, the
\* deduplication ids it has accepted (ids are kept for minutes; the clock of
\* the model does not run that long), the send_message requests it received,
\* the messages it accepted, and the messages the consumer has started a
\* pipeline run for in the batches it has answered.
EmptyQueue ==
    [ messages |-> <<>>,
      deduplication |-> {},
      requests |-> 0,
      sent |-> 0,
      started |-> {} ]

\* send_message on a FIFO queue: a message whose deduplication id the queue
\* has accepted before is acknowledged and not delivered
send_message(q, MessageBody, group, dedup) ==
    IF dedup \in q.deduplication
    THEN [q EXCEPT !.requests = @ + 1]
    ELSE [q EXCEPT !.requests = @ + 1,
                   !.sent = @ + 1,
                   !.deduplication = @ \cup {dedup},
                   !.messages = Append(@,
                        [ MessageId |-> q.sent + 1,
                          MessageBody |-> MessageBody,
                          MessageGroupId |-> group,
                          MessageDeduplicationId |-> dedup ])]

\* the two tests of send_deployment_to_sqs
DispatchMode_IgnoreQueueUrl(e) ==
    IF Missing(e.AWS_LAMBDA_FUNCTION_NAME) THEN "thread" ELSE "queue"
DispatchMode(e) ==
    IF Missing(e.AWS_LAMBDA_FUNCTION_NAME) THEN "thread"
    ELSE IF Missing(e.DEPLOY_QUEUE_URL) THEN "thread"
    ELSE "queue"

\* One call of the dispatcher, as the history keeps it
Dispatched(args, outcome, id) ==
    [args |-> args, time |-> now, outcome |-> outcome, MessageId |-> id]

\* send_deployment_to_sqs(project_id, github_url, ...): thread.start() of a
\* thread that calls _run_deployment_sync, or one send_message, which the
\* queue service may refuse (the call then raises)
send_deployment_to_sqs(args) ==
    /\ Len(dispatched) < MaxRuns
    /\ args.project_id \in DOMAIN projects
    /\ IF DispatchMode(environ) = "thread"
       THEN /\ \E r \in Runs :
                /\ IsFirstIdle(r)
                /\ StartRun(r, args.project_id, args.github_url, args.github_token)
            /\ dispatched' = Append(dispatched, Dispatched(args, "thread", 0))
            /\ UNCHANGED queue
       ELSE /\ \E ok \in BOOLEAN :
                LET q == send_message(queue, json_dumps(message_body(args)),
                            MessageGroupId(args.project_id),
                            MessageDeduplicationId(args.project_id, now))
                IN  IF ok
                    THEN /\ queue' = q
                         /\ dispatched' = Append(dispatched,
                                IF q.sent = queue.sent
                                THEN Dispatched(args, "duplicate", 0)
                                ELSE Dispatched(args, "enqueued", q.sent))
                    ELSE /\ queue' = [queue EXCEPT !.requests = @ + 1]
                         /\ dispatched' = Append(dispatched,
                                                 Dispatched(args, "error", 0))
            /\ UNCHANGED runs
    /\ UNCHANGED <<projects, deployments, builds, now, sqs, resources,
                   lambdaVars, env, environ, events, usage, extVars>>

\* time.time() passes a second in which the dispatcher was called
QueueTick ==
    /\ \E i \in DOMAIN dispatched : dispatched[i].time = now
    /\ now' = now + 1
    /\ UNCHANGED <<projects, deployments, builds, runs, others>>

\* The queue service invokes the consumer with the first messages of one
\* ordering group, while no other batch is being handled
DeliverBatch ==
    \E n \in 1..MaxBatch :
    \E g \in {queue.messages[i].MessageGroupId : i \in DOMAIN queue.messages} :
        LET group == SelectSeq(queue.messages, LAMBDA m : m.MessageGroupId = g)
        IN  /\ n <= Len(group)
            /\ ReceiveBatch([k \in 1..n |-> json_loads(group[k])])

\* The queue service reads the consumer's response: it deletes the messages
\* of the batch that are not among batchItemFailures, and keeps the others
\* for redelivery
Acknowledge ==
    /\ sqs.st = "done"
    /\ LET failures ==
                IF "batchItemFailures" \in DOMAIN sqs.response
                THEN {sqs.response.batchItemFailures[k].itemIdentifier :
                            k \in DOMAIN sqs.response.batchItemFailures}
                ELSE {}
           deleted == {sqs.records[j].messageId :
                            j \in {i \in DOMAIN sqs.records :
                                        MessageId(i) \notin failures}}
           ran == {sqs.records[j].messageId :
                            j \in {i \in DOMAIN sqs.records : sqs.run_of[i] # 0}}
       IN  queue' = [queue EXCEPT
                        !.messages = SelectSeq(@,
                                        LAMBDA m : m.MessageId \notin deleted),
                        !.started = @ \cup ran]
    /\ sqs' = IdleSqs
    /\ UNCHANGED <<pipeVars, resources, lambdaVars, env, environ, dispatched,
                   events, usage, extVars>>

-----------------------------------------------------------------------------
(* Usage Aggregator (api/usage_aggregator.py)                              *)

\* Python floats, kept exact: a fraction <<numerator, denominator>> in lowest
\* terms with a positive denominator
RECURSIVE GCD(_, _)
GCD(a, b) == IF b = 0 THEN a ELSE GCD(b, a % b)
Fraction(n, d) == LET g == GCD(n, d) IN <<n \div g, d \div g>>
float(n) == <<n, 1>>
FloatDiv(x, y) == Fraction(x[1] * y[2], x[2] * y[1])
FloatMul(x, y) == Fraction(x[1] * y[1], x[2] * y[2])
FloatAdd(x, y) == Fraction(x[1] * y[2] + y[1] * x[2], x[2] * y[2])
\* int(x)
int(x) == x[1] \div x[2]

\* Billing entities (organization_id)
Org1 == <<"o", "r", "g", "_", "1">>
Org2 == <<"o", "r", "g", "_", "2">>

\* The telemetry of one function in the window: the durations, in
\* milliseconds, of its invocations
NoTelemetry == <<>>

\* Before any aggregation run
IdleUsage ==
    [ telemetry |-> <<>>,      \* function name -> durations of its invocations
      calls |-> 0,             \* runs of aggregate_usage_metrics
      raised |-> FALSE,        \* the last run raised
      failed |-> {},           \* telemetry reads that failed in the last run
      computed |-> {},         \* get_gb_seconds calls of the last run
      tracked |-> <<>>,        \* _autumn_track_usage calls of the last run
      posted |-> <<>>,         \* POST /track requests of the last run
      reruns |-> 0,            \* manual re-runs allowed in the same window
      billing_fails |-> {},    \* <<customer, feature>> whose POST /track fails
      ledger |-> <<>>,         \* usage events the billing service has recorded
      history |-> <<>> ]       \* what every run so far did

RECURSIVE SumOf(_)
SumOf(values) == IF values = <<>> THEN 0 ELSE Head(values) + SumOf(Tail(values))

\* response["Datapoints"] of get_metric_statistics with Statistics=["Sum"]
\* and the window as period: none without invocations, else one sum
Datapoints(telemetry, function_name, metric_name) ==
    LET durations == IF function_name \in DOMAIN telemetry
                     THEN telemetry[function_name] ELSE NoTelemetry
    IN  IF durations = <<>> THEN <<>>
        ELSE IF metric_name = "Invocations"
        THEN << [Sum |-> Len(durations)] >>
        ELSE << [Sum |-> SumOf(durations)] >>

\* `failed` holds the <<function, metric>> reads on which
\* get_metric_statistics raises
get_cloudwatch_metric_sum(telemetry, failed, function_name, metric_name) ==
    IF <<function_name, metric_name>> \in failed
    THEN float(0)
    ELSE LET datapoints == Datapoints(telemetry, function_name, metric_name)
         IN  IF datapoints = <<>> THEN float(0)
             ELSE float(SumOf([i \in DOMAIN datapoints |-> datapoints[i].Sum]))

get_invocations(telemetry, failed, function_name) ==
    int(get_cloudwatch_metric_sum(telemetry, failed, function_name, "Invocations"))

\* the arithmetic of get_gb_seconds on the duration sum it has read
compute_seconds_PerThousand(total_duration_ms, memory_mb) ==
    IF total_duration_ms = float(0)
    THEN float(0)
    ELSE LET duration_seconds == FloatDiv(total_duration_ms, float(1000))
             memory_gb == FloatDiv(float(memory_mb), float(1024))
         IN  FloatDiv(FloatMul(duration_seconds, memory_gb), float(1000))
compute_seconds(total_duration_ms, memory_mb) ==
    IF total_duration_ms = float(0)
    THEN float(0)
    ELSE LET duration_seconds == FloatDiv(total_duration_ms, float(1000))
             memory_gb == FloatDiv(float(memory_mb), float(1024))
         IN  FloatMul(duration_seconds, memory_gb)

get_gb_seconds(telemetry, failed, function_name, memory_mb) ==
    compute_seconds(
        get_cloudwatch_metric_sum(telemetry, failed, function_name, "Duration"),
        memory_mb)

\* the function a project's telemetry is read for: the stored function_name,
\* or the name derived from github_url; None when neither gives a name
UsageFunctionName(project) ==
    LET stored_function_name == Get(project, "function_name", None)
    IN  IF stored_function_name # <<>>
        THEN get_lambda_function_name(stored_function_name)
        ELSE LET project_name ==
                    IF "github_url" \in DOMAIN project
                    THEN extract_project_name(project.github_url) ELSE <<>>
             IN  IF project_name = <<>> THEN None
                 ELSE get_lambda_function_name(project_name)

NoUsage == [requests |-> 0, gb_seconds |-> float(0)]

\* one iteration of `for project in org_projects`: what the project adds to
\* org_requests and org_gb_seconds
ProjectUsage_AnyStatus(telemetry, failed, project) ==
    IF UsageFunctionName(project) = None THEN NoUsage
    ELSE LET function_name == UsageFunctionName(project)
             memory_mb == Get(project, "memory", 1024)
             invocations == get_invocations(telemetry, failed, function_name)
             gb_seconds == get_gb_seconds(telemetry, failed, function_name, memory_mb)
         IN  IF invocations > 0 \/ gb_seconds[1] > 0
             THEN [requests |-> invocations, gb_seconds |-> gb_seconds]
             ELSE NoUsage
ProjectUsage(telemetry, failed, project) ==
    IF Get(project, "status", None) # "LIVE" THEN NoUsage
    ELSE IF UsageFunctionName(project) = None THEN NoUsage
    ELSE LET function_name == UsageFunctionName(project)
             memory_mb == Get(project, "memory", 1024)
             invocations == get_invocations(telemetry, failed, function_name)
             gb_seconds == get_gb_seconds(telemetry, failed, function_name, memory_mb)
         IN  IF invocations > 0 \/ gb_seconds[1] > 0
             THEN [requests |-> invocations, gb_seconds |-> gb_seconds]
             ELSE NoUsage

\* the loop over one organization's projects
RECURSIVE OrgUsage(_, _, _)
OrgUsage(telemetry, failed, org_projects) ==
    IF org_projects = <<>> THEN NoUsage
    ELSE LET rest == OrgUsage(telemetry, failed,
                              SubSeq(org_projects, 1, Len(org_projects) - 1))
             last == ProjectUsage(telemetry, failed,
                                  org_projects[Len(org_projects)])
         IN  [requests |-> rest.requests + last.requests,
              gb_seconds |-> FloatAdd(rest.gb_seconds, last.gb_seconds)]

\* the keys of orgs_projects, in insertion order
RECURSIVE OrgIds(_)
OrgIds(items) ==
    IF items = <<>> THEN <<>>
    ELSE LET before == OrgIds(SubSeq(items, 1, Len(items) - 1))
             org_id == Get(items[Len(items)], "organization_id", None)
         IN  IF org_id = None \/ (\E i \in DOMAIN before : before[i] = org_id)
             THEN before ELSE Append(before, org_id)

\* orgs_projects[org_id]
OrgProjects(items, org_id) ==
    SelectSeq(items, LAMBDA p : Get(p, "organization_id", None) = org_id)

\* the _autumn_track_usage calls made for one organization
TrackCalls(org_id, org) ==
    IF org.requests > 0 \/ org.gb_seconds[1] > 0
    THEN (IF org.requests > 0
          THEN << [customer_id |-> org_id, feature_id |-> "invocations",
                   value |-> float(org.requests)] >>
          ELSE <<>>)
         \o
         (IF org.gb_seconds[1] > 0
          THEN << [customer_id |-> org_id, feature_id |-> "compute",
                   value |-> org.gb_seconds] >>
          ELSE <<>>)
    ELSE <<>>

\* the loop over orgs_projects.items()
RECURSIVE AllTrackCalls(_, _, _, _)
AllTrackCalls(telemetry, failed, items, org_ids) ==
    IF org_ids = <<>> THEN <<>>
    ELSE TrackCalls(Head(org_ids),
                    OrgUsage(telemetry, failed, OrgProjects(items, Head(org_ids))))
         \o AllTrackCalls(telemetry, failed, items, Tail(org_ids))

\* table.scan(...)["Items"]: the project items, in an order the store chooses
Scans(projs) ==
    {s \in [1..Cardinality(DOMAIN projs) -> DOMAIN projs] :
        \A i, j \in DOMAIN s : i # j => s[i] # s[j]}
get_all_projects(projs, scan) == [i \in DOMAIN scan |-> projs[scan[i]]]

\* the get_gb_seconds calls of a run: duration sum read, memory, result
Computed(telemetry, failed, items) ==
    { [ total_duration_ms |->
            get_cloudwatch_metric_sum(telemetry, failed,
                UsageFunctionName(items[i]), "Duration"),
        memory_mb |-> Get(items[i], "memory", 1024),
        gb_seconds |->
            get_gb_seconds(telemetry, failed, UsageFunctionName(items[i]),
                           Get(items[i], "memory", 1024)) ] :
      i \in {k \in DOMAIN items :
                /\ Get(items[k], "organization_id", None) # None
                /\ Get(items[k], "status", None) = "LIVE"
                /\ UsageFunctionName(items[k]) # None} }

\* _autumn_track_usage posts to /track unless AUTUMN_API_KEY is missing; what
\* the request returns is only logged
Posted(tracked) == IF Missing(environ.AUTUMN_API_KEY) THEN <<>> ELSE tracked

\* What the billing service records of the requests of one run. The payload
\* is customer_id, feature_id and value, without an idempotency key, so the
\* service records every request that reaches it; a request that fails (an
\* error status, or an exception of httpx.post) is logged by
\* _autumn_track_usage and records nothing.
Recorded_Idempotent(u, posted) ==
    SelectSeq(posted, LAMBDA c :
        /\ <<c.customer_id, c.feature_id>> \notin u.billing_fails
        /\ ~\E i \in DOMAIN u.ledger :
                /\ u.ledger[i].customer_id = c.customer_id
                /\ u.ledger[i].feature_id = c.feature_id)
Recorded(u, posted) ==
    SelectSeq(posted, LAMBDA c :
        <<c.customer_id, c.feature_id>> \notin u.billing_fails)

\* the entry of one run in the history
RunEntry(raised, failed, tracked) ==
    [raised |-> raised, failed |-> failed, tracked |-> tracked]

\* aggregate_usage_metrics(): `scanned` is FALSE when the table scan raises,
\* which is the one exception the function lets out
MaxAggregations == 1
aggregate_usage_metrics_RaiseOnTrack(u, projs, scanned, scan, failed) ==
    LET items == get_all_projects(projs, scan)
        tracked == AllTrackCalls(u.telemetry, failed, items, OrgIds(items))
        posted == Posted(tracked)
    IN  IF ~scanned
        THEN [u EXCEPT !.calls = @ + 1, !.raised = TRUE, !.failed = {},
                       !.computed = {}, !.tracked = <<>>, !.posted = <<>>,
                       !.history = Append(@, RunEntry(TRUE, {}, <<>>))]
        ELSE [u EXCEPT !.calls = @ + 1,
                       !.raised = Recorded(u, posted) # posted,
                       !.failed = failed,
                       !.computed = Computed(u.telemetry, failed, items),
                       !.tracked = tracked,
                       !.posted = posted,
                       !.ledger = @ \o Recorded(u, posted),
                       !.history = Append(@,
                            RunEntry(Recorded(u, posted) # posted, failed, tracked))]
aggregate_usage_metrics(u, projs, scanned, scan, failed) ==
    IF ~scanned
    THEN [u EXCEPT !.calls = @ + 1, !.raised = TRUE, !.failed = {},
                   !.computed = {}, !.tracked = <<>>, !.posted = <<>>,
                   !.history = Append(@, RunEntry(TRUE, {}, <<>>))]
    ELSE LET items == get_all_projects(projs, scan)
             tracked == AllTrackCalls(u.telemetry, failed, items, OrgIds(items))
         IN  [u EXCEPT !.calls = @ + 1, !.raised = FALSE, !.failed = failed,
                       !.computed = Computed(u.telemetry, failed, items),
                       !.tracked = tracked,
                       !.posted = Posted(tracked),
                       !.ledger = @ \o Recorded(u, Posted(tracked)),
                       !.history = Append(@, RunEntry(FALSE, failed, tracked))]

\* the reads of one run that can fail: none, or one of them
FailedReads(u) ==
    {{}} \cup {{<<f, metric>>} : f \in DOMAIN u.telemetry,
                                 metric \in {"Invocations", "Duration"}}

\* The scheduled run of the aggregator
Aggregate ==
    /\ usage.calls < MaxAggregations + usage.reruns
    /\ \E scanned \in BOOLEAN : \E scan \in Scans(projects) :
       \E failed \in FailedReads(usage) :
            usage' = aggregate_usage_metrics(usage, projects, scanned, scan, failed)
    /\ UNCHANGED <<pipeVars, sqs, resources, lambdaVars, env,
                   environ, queue, dispatched, events, extVars>>

-----------------------------------------------------------------------------
(* Event entry point (handle_events, api/main.py)                          *)

\* JSON values of an event envelope: objects carry "dict" and their members,
\* each absent (Unset) or present (SetTo); other values carry their type
IsDict(value) == value.type = "dict"
JsonNullValue == [type |-> "null"]

\* event["detail"] of a scheduled event
Detail(action) == [type |-> "dict", action |-> action]
Details ==
    { Unset, SetTo(JsonNullValue), SetTo(Detail(Unset)),
      SetTo(Detail(SetTo("aggregate_usage"))), SetTo(Detail(SetTo("cleanup"))) }

\* event["Records"]: a queue record carries its source and a body
Record(eventSource, body) ==
    [type |-> "dict", eventSource |-> eventSource, body |-> body]
DeployBody ==
    [well_formed |-> TRUE, project_id |-> FirstProject,
     github_url |-> GithubUrl(FirstRepo), github_token |-> TRUE]
RecordLists ==
    { Unset, SetTo(<<>>),
      SetTo(<< Record(SetTo("aws:sqs"), DeployBody) >>),
      SetTo(<< Record(SetTo("aws:sqs"), [well_formed |-> FALSE]) >>),
      SetTo(<< Record(SetTo("aws:sqs"), [well_formed |-> FALSE]),
               Record(SetTo("aws:s3"), DeployBody) >>),
      SetTo(<< Record(SetTo("aws:s3"), DeployBody) >>),
      SetTo(<< Record(SetTo("aws:s3"), [well_formed |-> FALSE]),
               Record(SetTo("aws:sqs"), DeployBody) >>),
      SetTo(<< Record(Unset, DeployBody) >>),
      SetTo(<< [type |-> "str"] >>) }

Envelope(source, detail, Records) ==
    [type |-> "dict", source |-> source, detail |-> detail, Records |-> Records]

\* The request bodies posted to /events: a JSON value that is no object; a
\* scheduled event with every detail, with or without queue records; and
\* events of another or no source with every list of records
Envelopes ==
    { [type |-> "list"] }
    \cup { Envelope(SetTo("aws.events"), d, r) :
            d \in Details,
            r \in {Unset, SetTo(<< Record(SetTo("aws:sqs"), DeployBody) >>)} }
    \cup { Envelope(s, d, r) :
            s \in {Unset, SetTo("aws.ec2")},
            d \in {Unset, SetTo(Detail(SetTo("aggregate_usage")))},
            r \in RecordLists }

is_eventbridge_event(event) ==
    IF ~IsDict(event) THEN FALSE
    ELSE event.source = SetTo("aws.events")

\* "True", "False", or "raise" when records[0] has no get
is_sqs_event(event) ==
    IF ~IsDict(event) THEN "False"
    ELSE LET records == IF event.Records.set THEN event.Records.value ELSE <<>>
         IN  IF records = <<>> THEN "False"
             ELSE IF ~IsDict(records[1]) THEN "raise"
             ELSE IF records[1].eventSource = SetTo("aws:sqs")
             THEN "True" ELSE "False"

\* the handler handle_events passes the event to
Route_SqsFirst(event) ==
    IF is_sqs_event(event) = "raise" THEN "error"
    ELSE IF is_sqs_event(event) = "True" THEN "sqs"
    ELSE IF is_eventbridge_event(event) THEN "eventbridge"
    ELSE "ignored"
Route(event) ==
    IF is_eventbridge_event(event) THEN "eventbridge"
    ELSE IF is_sqs_event(event) = "raise" THEN "error"
    ELSE IF is_sqs_event(event) = "True" THEN "sqs"
    ELSE "ignored"

\* _handle_eventbridge_event up to the aggregation: "aggregate", the response
\* for another action, or "raise" when detail has no get
ScheduledAction(event) ==
    LET detail == IF event.detail.set THEN event.detail.value ELSE Detail(Unset)
    IN  IF ~IsDict(detail) THEN "raise"
        ELSE IF detail.action = SetTo("aggregate_usage") THEN "aggregate"
        ELSE "unknown"

Handled(event, route, response) ==
    [event |-> event, route |-> route, response |-> response]

\* POST /events
MaxEvents == 1
handle_events(event) ==
    /\ Len(events) < MaxEvents
    /\ sqs.st \in {"idle", "done"}
    /\ LET route == Route(event) IN
        CASE route = "eventbridge" /\ ScheduledAction(event) = "aggregate" ->
                /\ \E scanned \in BOOLEAN : \E scan \in Scans(projects) :
                   \E failed \in FailedReads(usage) :
                        /\ usage' = aggregate_usage_metrics(usage, projects,
                                                            scanned, scan, failed)
                        /\ events' = Append(events, Handled(event, route,
                                [statusCode |-> IF scanned THEN 200 ELSE 500]))
                /\ UNCHANGED sqs
          [] route = "eventbridge" /\ ScheduledAction(event) = "unknown" ->
                /\ events' = Append(events, Handled(event, route,
                                                    [statusCode |-> 400]))
                /\ UNCHANGED <<sqs, usage>>
          [] route = "eventbridge" /\ ScheduledAction(event) = "raise" ->
                /\ events' = Append(events, Handled(event, route,
                                                    [status |-> "error"]))
                /\ UNCHANGED <<sqs, usage>>
          [] route = "sqs" ->
                /\ sqs' = [IdleSqs EXCEPT
                            !.st = "loop",
                            !.records = [k \in DOMAIN event.Records.value |->
                                            event.Records.value[k].body],
                            !.i = 1]
                /\ events' = Append(events, Handled(event, route, None))
                /\ UNCHANGED usage
          [] route = "error" ->
                /\ events' = Append(events, Handled(event, route,
                                                    [status |-> "error"]))
                /\ UNCHANGED <<sqs, usage>>
          [] OTHER ->
                /\ events' = Append(events, Handled(event, route,
                                [status |-> "ignored",
                                 reason |-> "unknown_event_type"]))
                /\ UNCHANGED <<sqs, usage>>
    /\ UNCHANGED <<pipeVars, resources, lambdaVars, env, environ, queue, dispatched,
                   extVars>>

-----------------------------------------------------------------------------
(* Operations on a stored project outside the pipeline                     *)
(* (api/routes/projects.py, api/db/dynamodb.py)                            *)

\* PUT /api/projects/{project_id}/env-vars
update_project_env_vars(project_id, env_vars) ==
    /\ get_project(projects, project_id) # None
    /\ projects' = update_project(projects, project_id,
                                  [env_vars |-> env_vars], now)
    /\ UNCHANGED <<deployments, builds, runs, now, others>>

\* PATCH /api/projects/{project_id}: the fields of the request that are set
update_project_fields_ResetStatus(project_id, updates) ==
    /\ get_project(projects, project_id) # None
    /\ projects' = update_project(projects, project_id,
                                  updates @@ [status |-> "PENDING"], now)
    /\ UNCHANGED <<deployments, builds, runs, now, others>>
update_project_fields(project_id, updates) ==
    /\ get_project(projects, project_id) # None
    /\ projects' = update_project(projects, project_id, updates, now)
    /\ UNCHANGED <<deployments, builds, runs, now, others>>

\* delete_project: the project's deployments, then the project
delete_project(projs, deps, project_id) ==
    [ projects |-> [p \in DOMAIN projs \ {project_id} |-> projs[p]],
      deployments |-> deps \ list_deployments(deps, project_id) ]

\* DELETE /api/projects/{project_id}
delete_project_endpoint(project_id) ==
    /\ get_project(projects, project_id) # None
    /\ projects' = delete_project(projects, deployments, project_id).projects
    /\ deployments' = delete_project(projects, deployments, project_id).deployments
    /\ UNCHANGED <<builds, runs, now, others>>

\* The platform ends the process of a run that is waiting for its build (the
\* execution time limit of the function or the end of the process that hosts
\* the thread): the frame is gone, and no handler of the run is executed
ExecutionTimeout(r) ==
    /\ runs[r].pc = "wait"
    /\ runs' = [runs EXCEPT ![r] = EndFrame(@, "timed_out")]
    /\ UNCHANGED <<projects, deployments, builds, now, others>>

-----------------------------------------------------------------------------
(* Aggregation window (api/usage_aggregator.py)                            *)

MIN_WINDOW_SECONDS == 60
MAX_WINDOW_SECONDS == 24 * 60 * 60
DEFAULT_WINDOW_SECONDS == 3600

MaxSettingLen == 5     \* characters of AGGREGATION_WINDOW_SECONDS

DigitValue(c) == CHOOSE d \in 0..9 : ToString(d) = c

\* The digits part of an integer literal: digits, with single underscores
\* allowed between two digits
IsDigitsPart(s) ==
    /\ s # <<>>
    /\ \A i \in 1..Len(s) :
          \/ s[i] \in Digits
          \/ /\ s[i] = "_"
             /\ 1 < i /\ i < Len(s)
             /\ s[i - 1] \in Digits /\ s[i + 1] \in Digits

RECURSIVE DigitsValue(_)
DigitsValue(s) ==
    IF s = <<>> THEN 0
    ELSE LET c == s[Len(s)]
             rest == DigitsValue(SubSeq(s, 1, Len(s) - 1))
         IN  IF c = "_" THEN rest ELSE 10 * rest + DigitValue(c)

\* int(text) of Python, base 10: surrounding whitespace is dropped, one sign
\* may precede the digits; anything else raises ValueError
int_str(text) ==
    LET s == strip(text, " ")
        signed == s # <<>> /\ Head(s) \in {"+", "-"}
        digits == IF signed THEN Tail(s) ELSE s
    IN  IF IsDigitsPart(digits)
        THEN [raised |-> FALSE,
              value |-> IF signed /\ Head(s) = "-"
                        THEN 0 - DigitsValue(digits) ELSE DigitsValue(digits)]
        ELSE [raised |-> TRUE]

Max(a, b) == IF a >= b THEN a ELSE b
Min(a, b) == IF a <= b THEN a ELSE b

\* os.environ.get("AGGREGATION_WINDOW_SECONDS", "3600")
WindowSettingOrDefault(setting) ==
    IF setting.set THEN setting.value ELSE <<"3","6","0","0">>

_get_aggregation_window_seconds_NoFloor(setting) ==
    LET value == int_str(WindowSettingOrDefault(setting))
    IN  IF value.raised THEN DEFAULT_WINDOW_SECONDS
        ELSE Min(value.value, MAX_WINDOW_SECONDS)
_get_aggregation_window_seconds(setting) ==
    LET value == int_str(WindowSettingOrDefault(setting))
    IN  IF value.raised THEN DEFAULT_WINDOW_SECONDS
        ELSE Max(MIN_WINDOW_SECONDS, Min(value.value, MAX_WINDOW_SECONDS))

\* The characters settings are written with, and some settings longer than
\* MaxSettingLen
SettingChars == {"-", "8", "6", "4", "0", "x"}
WindowSettings ==
    {Unset}
    \cup {SetTo(s) : s \in UNION {[1..n -> SettingChars] : n \in 0..MaxSettingLen}}
    \cup {SetTo(s) : s \in { <<" ","1","2","0"," ">>, <<"+","9","0">>,
                             <<"1","_","0","0","0">>, <<"3",".","5">>,
                             <<"1","e","3">>, <<"5","9">>, <<"6","1">>,
                             <<"1","0","0","0","0","0">>, <<"-"," ","6","0">>,
                             <<"6","0","0","_">> }}

IdleWindow == [called |-> FALSE, setting |-> Unset, result |-> 0]

\* The aggregator reads its window
GetAggregationWindow ==
    /\ ~window.called
    /\ window' = [window EXCEPT
                    !.called = TRUE,
                    !.result = _get_aggregation_window_seconds(window.setting)]
    /\ UNCHANGED <<pipeVars, sqs, resources, lambdaVars, env, environ, queue,
                   dispatched, events, usage, alloc, removal, detect,
                   listing>>

-----------------------------------------------------------------------------
(* Subdomain allocation (api/db/dynamodb.py)                               *)

MaxCreators == 2       \* create_project calls in one behaviour
MAX_SUBDOMAIN_ATTEMPTS == 10
MAX_SLUG_LEN == 50

Creators == 1..MaxCreators

\* re.sub(r'[^a-z0-9\s-]', '', text)
KeepSlugChars(text) ==
    SelectSeq(text, LAMBDA c :
        \/ c \in Digits
        \/ \E i \in 1..26 : LowerLetters[i] = c
        \/ c \in {" ", "-"})

\* re.sub(r'[\s_]+', '-', text) and re.sub(r'-+', '-', text): every run of
\* blanks and underscores becomes one hyphen, then runs of hyphens become one
HyphenateRuns(text) ==
    CollapseHyphens([i \in 1..Len(text) |->
                        IF text[i] \in {" ", "_"} THEN "-" ELSE text[i]])

slugify(text) ==
    LET slug == strip(HyphenateRuns(KeepSlugChars(lower(text))), "-")
    IN  SubSeq(slug, 1, Min(Len(slug), MAX_SLUG_LEN))

\* uuid.uuid4().hex[:4] and uuid.uuid4().hex[:8]: the values drawn here
Hex4 == { <<"0","a","1","b">>, <<"f","f","f","f">> }
Hex8 == { <<"0","a","1","b","0","0","0","0">>, <<"9","9","9","9","9","9","9","9">> }

\* table.scan(FilterExpression="subdomain = :sd ..."): items[0] or None
get_project_by_subdomain(table, subdomain) ==
    IF \E item \in table : item.subdomain = subdomain
    THEN CHOOSE item \in table : item.subdomain = subdomain
    ELSE None

\* base = slugify(project_name); if not base: base = "project"
SubdomainBase(project_name) ==
    IF slugify(project_name) = <<>>
    THEN <<"p","r","o","j","e","c","t">>
    ELSE slugify(project_name)

\* f"{base}-{suffix}"
Suffixed(base, suffix) == base \o <<"-">> \o suffix

IdleCreator ==
    [ pc |-> "idle",
      name |-> <<>>,
      project_id |-> None,
      base |-> <<>>,
      subdomain |-> <<>>,
      attempt |-> 0,
      checks |-> 0,          \* get_project_by_subdomain calls so far
      fallback |-> FALSE,    \* the 8-character fallback was returned
      taken |-> FALSE ]      \* the returned subdomain was stored at the return

IdleAlloc == [table |-> {}, creators |-> [c \in Creators |-> IdleCreator]]

\* project names of creation requests
ProjectNames ==
    { <<"M","y"," ","A","p","p">>, <<"m","y","-","a","p","p">>,
      <<"m","y"," "," ","a","p","p","!">>, <<"S","h","o","p">>, <<"!","!">> }

\* create_project up to the call of generate_unique_subdomain, and that
\* function up to its loop: subdomain = base, attempt = 0
CreateProjectBegin(c, name) ==
    /\ alloc.creators[c].pc = "idle"
    /\ alloc' = [alloc EXCEPT !.creators[c] =
                    [@ EXCEPT !.pc = "check",
                              !.name = name,
                              !.project_id = <<"new", c>>,
                              !.base = SubdomainBase(name),
                              !.subdomain = SubdomainBase(name)]]
    /\ UNCHANGED <<pipeVars, sqs, resources, lambdaVars, env, environ, queue,
                   dispatched, events, usage, window, removal, detect,
                   listing>>

\* One evaluation of `while get_project_by_subdomain(subdomain) is not None`
\* and, when the subdomain is taken, the loop body; the function returns
\* when the subdomain is free or the attempts are used up.
SubdomainLoop(creator, table, suffix, long_suffix) ==
    IF get_project_by_subdomain(table, creator.subdomain) = None
    THEN [creator EXCEPT !.pc = "put", !.checks = @ + 1]
    ELSE IF creator.attempt + 1 > MAX_SUBDOMAIN_ATTEMPTS
    THEN [creator EXCEPT !.attempt = @ + 1, !.checks = @ + 1,
                         !.subdomain = Suffixed(creator.base, long_suffix),
                         !.fallback = TRUE,
                         !.taken = get_project_by_subdomain(table,
                                        Suffixed(creator.base, long_suffix)) # None,
                         !.pc = "put"]
    ELSE [creator EXCEPT !.attempt = @ + 1, !.checks = @ + 1,
                         !.subdomain = Suffixed(creator.base, suffix)]

SubdomainCheck(c) ==
    /\ alloc.creators[c].pc = "check"
    /\ \E suffix \in Hex4, long_suffix \in Hex8 :
          alloc' = [alloc EXCEPT !.creators[c] =
                        SubdomainLoop(@, alloc.table, suffix, long_suffix)]
    /\ UNCHANGED <<pipeVars, sqs, resources, lambdaVars, env, environ, queue,
                   dispatched, events, usage, window, removal, detect,
                   listing>>

\* the item create_project writes, as far as subdomains are concerned
SubdomainItem(project_id, name, subdomain) ==
    [project_id |-> project_id, name |-> name, subdomain |-> subdomain]

\* table.put_item(Item=item), unconditional
CreateProjectPutItem(table, creator) ==
    table \cup {SubdomainItem(creator.project_id, creator.name, creator.subdomain)}

PutItem(c) ==
    /\ alloc.creators[c].pc = "put"
    /\ alloc' = [alloc EXCEPT
                    !.table = CreateProjectPutItem(@, alloc.creators[c]),
                    !.creators[c].pc = "done"]
    /\ UNCHANGED <<pipeVars, sqs, resources, lambdaVars, env, environ, queue,
                   dispatched, events, usage, window, removal, detect,
                   listing>>

-----------------------------------------------------------------------------
(* Deleting a project and its cloud resources                              *)
(* (deployer/aws/lambda_service.py, ecr.py, cloudwatch.py,                 *)
(*  deployer/orchestrator.py, api/routes/projects.py)                      *)

\* log_group = f"/aws/lambda/{full_function_name}"
LogGroupName(full_function_name) ==
    <<"/","a","w","s","/","l","a","m","b","d","a","/">> \o full_function_name

\* the cloud resources of a kind and name, and the cloud without them
Named(cloud, kind, name) == {x \in cloud : x.kind = kind /\ x.name = name}
Without(cloud, kind, name) == cloud \ Named(cloud, kind, name)

\* What a delete function does: the cloud afterwards, the value it returns,
\* and whether it raises. A request meets a resource that exists, or one that
\* does not (the platform answers not-found), or fails with another error
\* (`fault`).
Outcome(cloud, returns, raises) ==
    [cloud |-> cloud, returns |-> returns, raises |-> raises]

\* delete_lambda(function_name): delete_function_url_config, passing over
\* not-found, then delete_function; not-found and every other exception of
\* either request give False
delete_lambda(cloud, function_name, url_fault, function_fault) ==
    LET full_name == get_lambda_function_name(function_name)
        cloud1 == Without(cloud, "url", full_name)
    IN  IF url_fault THEN Outcome(cloud, FALSE, FALSE)
        ELSE IF function_fault THEN Outcome(cloud1, FALSE, FALSE)
        ELSE IF Named(cloud, "function", full_name) = {}
        THEN Outcome(cloud1, FALSE, FALSE)
        ELSE Outcome(Without(cloud1, "function", full_name), TRUE, FALSE)

\* delete_ecr_repository(repo_name), with force=True
delete_ecr_repository(cloud, repo_name, fault) ==
    IF fault THEN Outcome(cloud, FALSE, FALSE)
    ELSE IF Named(cloud, "registry", repo_name) = {}
    THEN Outcome(cloud, FALSE, FALSE)
    ELSE Outcome(Without(cloud, "registry", repo_name), TRUE, FALSE)

\* delete_lambda_logs(function_name): a log group that does not exist is not
\* an error
delete_lambda_logs_Propagate(cloud, function_name, fault) ==
    LET log_group == LogGroupName(get_lambda_function_name(function_name))
    IN  IF fault THEN Outcome(cloud, FALSE, FALSE)
        ELSE IF Named(cloud, "log_group", log_group) = {}
        THEN Outcome(cloud, FALSE, TRUE)
        ELSE Outcome(Without(cloud, "log_group", log_group), TRUE, FALSE)
delete_lambda_logs(cloud, function_name, fault) ==
    LET log_group == LogGroupName(get_lambda_function_name(function_name))
    IN  IF fault THEN Outcome(cloud, FALSE, FALSE)
        ELSE IF Named(cloud, "log_group", log_group) = {}
        THEN Outcome(cloud, TRUE, FALSE)
        ELSE Outcome(Without(cloud, "log_group", log_group), TRUE, FALSE)

\* the four cloud resources a deployment under project_name leaves
CloudResources(project_name, project_id) ==
    { Resource("function", get_lambda_function_name(project_name), project_id),
      Resource("url", get_lambda_function_name(project_name), project_id),
      Resource("registry", get_ecr_repo_name(project_name), project_id),
      Resource("log_group",
               LogGroupName(get_lambda_function_name(project_name)), project_id) }

IdleRemoval ==
    [ pc |-> "idle",
      project_id |-> None,
      project_name |-> None,
      found |-> {},               \* the kinds of resources that existed when
                                  \* the request arrived
      lambda_deleted |-> FALSE,
      ecr_deleted |-> FALSE,
      logs_deleted |-> FALSE,
      raised |-> "",              \* the call that raised, if one did
      response |-> None ]

\* DELETE /api/projects/{project_id}, up to delete_project_resources choosing
\* the name: the stored function_name, or the name derived from github_url
DeleteProjectBegin(project_id) ==
    /\ removal.pc = "idle"
    /\ LET project == get_project(projects, project_id)
           project_name ==
                IF project.function_name # None THEN project.function_name
                ELSE extract_project_name(project.github_url)
       IN  IF project = None
           THEN removal' = [removal EXCEPT !.pc = "not_found",
                                           !.project_id = project_id]
           ELSE removal' = [removal EXCEPT
                    !.pc = "lambda",
                    !.project_id = project_id,
                    !.project_name = project_name,
                    !.found = {x.kind : x \in
                                resources \cap CloudResources(project_name, project_id)}]
    /\ UNCHANGED <<pipeVars, sqs, resources, lambdaVars, env, environ, queue,
                   dispatched, events, usage, window, alloc, detect,
                   listing>>

\* a delete function has returned or raised
AfterDelete_StopOnFalse(r, field, outcome, next) ==
    IF outcome.raises \/ ~outcome.returns
    THEN [r EXCEPT !.pc = "raised", !.raised = field]
    ELSE [r EXCEPT !.pc = next, ![field] = outcome.returns]
AfterDelete(r, field, outcome, next) ==
    IF outcome.raises
    THEN [r EXCEPT !.pc = "raised", !.raised = field]
    ELSE [r EXCEPT !.pc = next, ![field] = outcome.returns]

\* lambda_deleted = delete_lambda(project_name)
DeleteLambda ==
    /\ removal.pc = "lambda"
    /\ \E url_fault, function_fault \in BOOLEAN :
          LET outcome == delete_lambda(resources, removal.project_name,
                                       url_fault, function_fault)
          IN  /\ resources' = outcome.cloud
              /\ removal' = AfterDelete(removal, "lambda_deleted", outcome, "registry")
    /\ UNCHANGED <<pipeVars, sqs, lambdaVars, env, environ, queue,
                   dispatched, events, usage, window, alloc, detect,
                   listing>>

\* ecr_deleted = delete_ecr_repository(get_ecr_repo_name(project_name))
DeleteEcrRepository ==
    /\ removal.pc = "registry"
    /\ \E fault \in BOOLEAN :
          LET outcome == delete_ecr_repository(resources,
                                get_ecr_repo_name(removal.project_name), fault)
          IN  /\ resources' = outcome.cloud
              /\ removal' = AfterDelete(removal, "ecr_deleted", outcome, "logs")
    /\ UNCHANGED <<pipeVars, sqs, lambdaVars, env, environ, queue,
                   dispatched, events, usage, window, alloc, detect,
                   listing>>

\* logs_deleted = delete_lambda_logs(project_name)
DeleteLambdaLogs ==
    /\ removal.pc = "logs"
    /\ \E fault \in BOOLEAN :
          LET outcome == delete_lambda_logs(resources, removal.project_name, fault)
          IN  /\ resources' = outcome.cloud
              /\ removal' = AfterDelete(removal, "logs_deleted", outcome, "store")
    /\ UNCHANGED <<pipeVars, sqs, lambdaVars, env, environ, queue,
                   dispatched, events, usage, window, alloc, detect,
                   listing>>

\* delete_project(project_id), first part: the project's Deployments are
\* listed and deleted in a batch; a State Store request that fails raises
DeleteStoredDeployments ==
    /\ removal.pc = "store"
    /\ \E ok \in BOOLEAN :
        IF ok
        THEN /\ deployments' = delete_project(projects, deployments,
                                              removal.project_id).deployments
             /\ removal' = [removal EXCEPT !.pc = "project"]
        ELSE /\ removal' = [removal EXCEPT !.pc = "raised", !.raised = "store"]
             /\ UNCHANGED deployments
    /\ UNCHANGED <<projects, builds, runs, now, sqs, resources, lambdaVars, env,
                   environ, queue, dispatched, events, usage, window, alloc,
                   detect, listing>>

\* delete_project(project_id), second part: projects_table.delete_item, and
\* the response
DeleteProjectStored ==
    /\ removal.pc = "project"
    /\ \E ok \in BOOLEAN :
        IF ok
        THEN /\ projects' = delete_project(projects, deployments,
                                           removal.project_id).projects
             /\ removal' = [removal EXCEPT
                    !.pc = "responded",
                    !.response = [deleted |-> TRUE,
                                  lambda_deleted |-> removal.lambda_deleted,
                                  ecr_deleted |-> removal.ecr_deleted,
                                  logs_deleted |-> removal.logs_deleted]]
        ELSE /\ removal' = [removal EXCEPT !.pc = "raised", !.raised = "store"]
             /\ UNCHANGED projects
    /\ UNCHANGED <<deployments, builds, runs, now, sqs, resources, lambdaVars,
                   env, environ, queue, dispatched, events, usage, window,
                   alloc, detect, listing>>

-----------------------------------------------------------------------------
(* Runtime detection (deployer/utils/github_api.py)                        *)

\* s.rstrip(chars), s.lstrip(chars), s.strip(chars): a set of characters
RECURSIVE rstrip_chars(_, _)
rstrip_chars(s, chars) ==
    IF s # <<>> /\ s[Len(s)] \in chars
    THEN rstrip_chars(SubSeq(s, 1, Len(s) - 1), chars) ELSE s
RECURSIVE lstrip_chars(_, _)
lstrip_chars(s, chars) ==
    IF s # <<>> /\ Head(s) \in chars THEN lstrip_chars(Tail(s), chars) ELSE s
strip_chars(s, chars) == rstrip_chars(lstrip_chars(s, chars), chars)

\* s.split(c)
RECURSIVE split(_, _)
split(s, c) ==
    IF \E i \in 1..Len(s) : s[i] = c
    THEN LET i == CHOOSE j \in 1..Len(s) :
                    s[j] = c /\ \A k \in 1..(j - 1) : s[k] # c
         IN  <<SubSeq(s, 1, i - 1)>> \o split(SubSeq(s, i + 1, Len(s)), c)
    ELSE <<s>>

\* the text of github_url
UrlText(github_url) ==
    <<"h","t","t","p","s",":","/","/","g","i","t","h","u","b",".","c","o","m">>
        \o github_url.path

PackageJson == <<"p","a","c","k","a","g","e",".","j","s","o","n">>
RequirementsTxt == <<"r","e","q","u","i","r","e","m","e","n","t","s",".","t","x","t">>
PyprojectToml == <<"p","y","p","r","o","j","e","c","t",".","t","o","m","l">>
SetupPy == <<"s","e","t","u","p",".","p","y">>
Pipfile == <<"P","i","p","f","i","l","e">>

\* python_files
python_files == <<RequirementsTxt, PyprojectToml, SetupPy, Pipfile>>

\* the five probes in the order detect_runtime_from_github makes them
MarkerFiles == <<PackageJson>> \o python_files

\* What a probe meets: the hosting service answers for the file ("answer":
\* 200 if it exists in that repository, 404 if not), answers with another
\* status ("refused": rate limit, server error), or the request raises
\* ("error": timeout, connection failure).
ProbeOutcomes == {"answer", "refused", "error"}

\* The hosting service: `hosted` is the set of <<owner, repo, path>> of the
\* files that exist.
\* _file_exists(owner, repo, path, headers)
_file_exists(hosted, owner, repo, path, outcome) ==
    IF outcome = "error" THEN FALSE
    ELSE IF outcome = "refused" THEN FALSE
    ELSE <<owner, repo, lstrip(path, "/")>> \in hosted

\* path_prefix of detect_runtime_from_github
path_prefix(root_directory) ==
    LET stripped == strip(strip_chars(root_directory, {".", "/"}), "/")
    IN  IF stripped # <<>> THEN stripped \o <<"/">> ELSE stripped

\* parts = github_url.rstrip('/').rstrip('.git').split('/')
UrlParts(github_url) ==
    split(rstrip_chars(rstrip(UrlText(github_url), "/"), {".", "g", "i", "t"}), "/")

Detected(returns, raised, warned, probed) ==
    [returns |-> returns, raised |-> raised, warned |-> warned, probed |-> probed]

\* detect_runtime_from_github(github_url, github_token, root_directory);
\* outcomes[i] is what the i-th probe meets, if it is made
detect_runtime_from_github(hosted, github_url, root_directory, outcomes) ==
    LET parts == UrlParts(github_url)
        owner == parts[Len(parts) - 1]
        repo == parts[Len(parts)]
        exists(i) == _file_exists(hosted, owner, repo,
                                  path_prefix(root_directory) \o MarkerFiles[i],
                                  outcomes[i])
    IN  IF Len(parts) < 2 THEN Detected(None, TRUE, FALSE, 0)
        ELSE IF exists(1) THEN Detected("nodejs", FALSE, FALSE, 1)
        ELSE IF \E i \in 2..5 : exists(i)
        THEN Detected("python", FALSE, FALSE,
                      CHOOSE i \in 2..5 : exists(i) /\ \A k \in 2..(i - 1) : ~exists(k))
        ELSE Detected("python", FALSE, TRUE, 5)

\* The repository a github_url names: owner and name, the name without a
\* ".git" suffix.
RepoOf(github_url) ==
    LET segments == split(strip(UrlPath(github_url), "/"), "/")
        name == segments[Len(segments)]
    IN  <<segments[Len(segments) - 1],
          IF endswith(name, DotGit) THEN SubSeq(name, 1, Len(name) - 4) ELSE name>>

\* The directory root_directory names, as a path inside the repository:
\* "./" and "" are the top, "./app/" and "app" are app/
RootPath(root_directory) ==
    LET relative == IF startswith(root_directory, <<".", "/">>)
                    THEN SubSeq(root_directory, 3, Len(root_directory))
                    ELSE root_directory
        inner == strip(relative, "/")
    IN  IF inner # <<>> THEN inner \o <<"/">> ELSE inner

\* the repositories and root directories of the detection specification
DetectRepos ==
    { <<"o","/","A","p","p">>, <<"o","/","a","_","b",".","g","i","t">>,
      <<"o","/","b","i","t">> }
RootDirectories ==
    { <<".", "/">>, <<"a","p","p">>, <<".","/","a","p","p","/">>, <<".","x">> }

IdleDetect ==
    [ called |-> FALSE,
      github_url |-> None,
      root_directory |-> None,
      hosted |-> {},
      outcomes |-> <<>>,
      result |-> None ]

\* Step 1 of deploy_project: runtime = detect_runtime_from_github(...)
DetectRuntime ==
    /\ ~detect.called
    /\ \E outcomes \in [1..5 -> ProbeOutcomes] :
        detect' = [detect EXCEPT
            !.called = TRUE,
            !.outcomes = outcomes,
            !.result = detect_runtime_from_github(detect.hosted, detect.github_url,
                                                  detect.root_directory, outcomes)]
    /\ UNCHANGED <<pipeVars, sqs, resources, lambdaVars, env, environ, queue,
                   dispatched, events, usage, window, alloc, removal,
                   listing>>

-----------------------------------------------------------------------------
(* Listing the Deployments of a project (api/db/dynamodb.py)               *)

MaxListed == 3     \* Deployment records created before and between listings

\* int(time.time()) when the first Deployment of a behaviour is created
EPOCH_SECONDS == 1700000000

\* str(n) for n >= 0
RECURSIVE str_int(_)
str_int(n) ==
    LET digit == CHOOSE d \in Digits : DigitValue(d) = n % 10
    IN  IF n < 10 THEN <<digit>> ELSE Append(str_int(n \div 10), digit)

\* the text of a sort key: f"DEPLOY#{timestamp}#{deploy_id}"
SKText(sk) ==
    <<"D","E","P","L","O","Y","#">> \o str_int(sk[2]) \o <<"#">>
        \o (IF Len(sk) >= 3 THEN sk[3] ELSE <<>>)

\* the code point order of the characters a sort key is made of
CodeOrder ==
    <<"#">> \o <<"0","1","2","3","4","5","6","7","8","9">> \o UpperLetters
        \o LowerLetters
CodePoint(c) == CHOOSE i \in 1..Len(CodeOrder) : CodeOrder[i] = c

\* a < b for two strings, as the State Store orders sort keys: by the first
\* character that differs, a proper prefix first
RECURSIVE StringLess(_, _)
StringLess(a, b) ==
    IF b = <<>> THEN FALSE
    ELSE IF a = <<>> THEN TRUE
    ELSE IF Head(a) # Head(b) THEN CodePoint(Head(a)) < CodePoint(Head(b))
    ELSE StringLess(Tail(a), Tail(b))

\* table.query(... ScanIndexForward=False): the sequences the State Store
\* may return for a set of items, every item once, no item before one with a
\* greater sort key
QueryDescending_Forward(items) ==
    { s \in [1..Cardinality(items) -> items] :
        /\ \A i, j \in DOMAIN s : i # j => s[i] # s[j]
        /\ \A i, j \in DOMAIN s :
              i < j => ~StringLess(SKText(s[j].SK), SKText(s[i].SK)) }
QueryDescending(items) ==
    { s \in [1..Cardinality(items) -> items] :
        /\ \A i, j \in DOMAIN s : i # j => s[i] # s[j]
        /\ \A i, j \in DOMAIN s :
              i < j => ~StringLess(SKText(s[i].SK), SKText(s[j].SK)) }

\* the ids generate_deploy_id draws in the listing specification
DeployIds == { <<"a","B">>, <<"A","b">>, <<"0","z">> }

IdleListing ==
    [ project_id |-> None,
      store |-> {},               \* the project's items when it was listed
      result |-> None,            \* what list_deployments returned
      before |-> None ]           \* the listing before this one

\* create_deployment(project_id, build_id), with the second the clock shows
\* (never an earlier one than before) and the id generate_deploy_id draws
ListedCreate(project_id, seconds, deploy_id) ==
    /\ Cardinality(deployments) < MaxListed
    /\ \A d \in deployments : d.SK[2] <= EPOCH_SECONDS + seconds
    /\ deployments' = create_deployment(deployments, project_id, NewBuildId(0),
                                        deploy_id, EPOCH_SECONDS + seconds)
    /\ UNCHANGED <<projects, builds, runs, now, others>>

\* list_deployments(project_id)
ListDeployments(project_id) ==
    /\ \E result \in QueryDescending(list_deployments(deployments, project_id)) :
        listing' = [ project_id |-> project_id,
                     store |-> list_deployments(deployments, project_id),
                     result |-> result,
                     before |-> [listing EXCEPT !.before = None] ]
    /\ UNCHANGED <<pipeVars, sqs, resources, lambdaVars, env, environ, queue,
                   dispatched, events, usage, window, alloc, removal, detect>>

-----------------------------------------------------------------------------
(* Specifications                                                          *)

\* the State Store and the build service before any project is created
PipelineEmpty ==
    /\ projects = << >>
    /\ deployments = {}
    /\ builds = {}
    /\ runs = [r \in Runs |-> IdleRun]
    /\ now = 0

\* The state a stored project is in once its first deployment has succeeded:
\* the project is LIVE with its URL and resource name, the first Deployment is
\* SUCCEEDED, and no run is in flight.
PipelineDeployed ==
    /\ projects = update_project(
            create_project(<< >>, FirstProject, FirstRepo, 0), FirstProject,
            [status |-> "LIVE",
             function_url |-> FunctionUrl(get_lambda_function_name(FirstName)),
             function_name |-> FirstName], 0)
    /\ deployments = update_deployment(
            create_deployment({}, FirstProject, NewBuildId(0),
                              generate_deploy_id(0), 0),
            FirstProject, generate_deploy_id(0),
            [status |-> "SUCCEEDED", finished_at |-> isoformat(0)])
    /\ builds = {NewBuildId(0)}
    /\ runs = [r \in Runs |-> IdleRun]
    /\ now = 1

ConsumerIdle == sqs = IdleSqs
ResourcesNone == resources = {}
ProvisionerIdle ==
    /\ fn = NoFunction
    /\ calls = [c \in Calls |-> IdleCall]
    /\ codebuild = {}
FilterIdle == env = IdleEnv
EnvironLocal ==
    environ = [ AWS_LAMBDA_FUNCTION_NAME |-> Unset,
                DEPLOY_QUEUE_URL |-> Unset,
                AUTUMN_API_KEY |-> Unset ]
DispatcherIdle == queue = EmptyQueue /\ dispatched = <<>>
EventsIdle == events = <<>>
UsageIdle == usage = IdleUsage
ExtIdle ==
    /\ window = IdleWindow /\ alloc = IdleAlloc /\ removal = IdleRemoval
    /\ detect = IdleDetect /\ listing = IdleListing
AuxIdle == EnvironLocal /\ DispatcherIdle /\ EventsIdle /\ UsageIdle /\ ExtIdle

\* Deployment pipeline: a project is created and redeployed by runs on
\* background threads, which may overlap
Init ==
    PipelineEmpty /\ ConsumerIdle /\ ResourcesNone /\ ProvisionerIdle /\ FilterIdle
    /\ AuxIdle

Next ==
    \/ \E p \in PipelineProjectIds, g \in PipelineRepos, tok \in BOOLEAN :
            create_new_project(p, g, tok)
    \/ \E p \in PipelineProjectIds, tok \in BOOLEAN : redeploy_project(p, tok)
    \/ \E r \in Runs : RunStep(r)

Spec == Init /\ [][Next]_vars

\* Redeploys of a project that is already deployed
InitRedeploy ==
    PipelineDeployed /\ ConsumerIdle /\ ResourcesNone /\ ProvisionerIdle /\ FilterIdle
    /\ AuxIdle

NextRedeploy ==
    \/ \E p \in PipelineProjectIds, tok \in BOOLEAN : redeploy_project(p, tok)
    \/ \E r \in Runs : RunStep(r)

SpecRedeploy == InitRedeploy /\ [][NextRedeploy]_vars

\* The queue consumer handling one batch of deployment messages
InitSqs ==
    PipelineDeployed /\ ConsumerIdle /\ ResourcesNone /\ ProvisionerIdle /\ FilterIdle
    /\ AuxIdle

NextSqs ==
    \/ \E records \in Batches : ReceiveBatch(records)
    \/ ProcessRecord
    \/ ConsumerRunStep
    \/ AfterRun
    \/ ReturnResponse

SpecSqs == InitSqs /\ [][NextSqs]_vars

\* Projects created, deployed and deleted, and the resources they name
InitName ==
    PipelineEmpty /\ ConsumerIdle /\ ResourcesNone /\ ProvisionerIdle /\ FilterIdle
    /\ AuxIdle

NextName ==
    \/ \E p \in ProjectIdSpace, g \in Repos : NameCreateProject(p, g)
    \/ \E p \in ProjectIdSpace : NameDeploy(p)
    \/ \E p \in ProjectIdSpace : NameDelete(p)

SpecName == InitName /\ [][NextName]_vars

\* Deployment requests that build and provision one project's function
InitLambda ==
    PipelineEmpty /\ ConsumerIdle /\ ResourcesNone /\ ProvisionerIdle /\ FilterIdle
    /\ AuxIdle

NextLambda ==
    \/ \E c \in Calls, request \in LambdaRequests :
            LambdaStartBuild(c, request.env_vars, request.config)
    \/ \E c \in Calls :
        \/ GetFunction(c)
        \/ UpdateFunctionCode(c)
        \/ WaitFunctionUpdated(c)
        \/ UpdateFunctionConfiguration(c)
        \/ CreateFunction(c)
        \/ WaitFunctionActive(c)
        \/ EnsureFunctionUrl(c)
        \/ AddPermission(c)
        \/ CreateFunctionUrlConfig(c)
    \/ \E ok \in BOOLEAN : UpdateCompletes(ok)
    \/ \E ok \in BOOLEAN : FunctionActivates(ok)

SpecLambda == InitLambda /\ [][NextLambda]_vars

\* filter_env_vars applied to one input
InitEnv ==
    /\ PipelineEmpty /\ ConsumerIdle /\ ResourcesNone /\ ProvisionerIdle
    /\ AuxIdle
    /\ env \in {[IdleEnv EXCEPT !.env_vars = e] : e \in EnvInputs}

NextEnv == CallFilterEnvVars

SpecEnv == InitEnv /\ [][NextEnv]_vars

\* Two stored projects that have not been deployed yet
TwoProjects ==
    /\ projects = create_project(
                    create_project(<< >>, FirstProject, FirstRepo, 0),
                    CHOOSE p \in QueueProjectIds : p # FirstProject, FirstRepo, 0)
    /\ deployments = {}
    /\ builds = {}
    /\ runs = [r \in Runs |-> IdleRun]
    /\ now = 0

\* The dispatcher called for the two projects, in every environment; the
\* runs of the threads it starts are the runs of Spec, and the messages it
\* sends are consumed in SpecQueue.
InitDispatch ==
    /\ TwoProjects
    /\ ConsumerIdle /\ ResourcesNone /\ ProvisionerIdle /\ FilterIdle
    /\ environ \in [ AWS_LAMBDA_FUNCTION_NAME : EnvironValues,
                     DEPLOY_QUEUE_URL : EnvironValues,
                     AUTUMN_API_KEY : {Unset} ]
    /\ DispatcherIdle /\ EventsIdle /\ UsageIdle /\ ExtIdle

NextDispatch ==
    \/ \E args \in DispatchArgs : send_deployment_to_sqs(args)
    \/ QueueTick

SpecDispatch == InitDispatch /\ [][NextDispatch]_vars

\* The deployed environment: the dispatcher enqueues, the queue service
\* delivers batches to the consumer, which runs the pipeline for each message
InitQueue ==
    /\ TwoProjects
    /\ ConsumerIdle /\ ResourcesNone /\ ProvisionerIdle /\ FilterIdle
    /\ environ = [ AWS_LAMBDA_FUNCTION_NAME |-> SetTo("configured"),
                   DEPLOY_QUEUE_URL |-> SetTo("configured"),
                   AUTUMN_API_KEY |-> Unset ]
    /\ DispatcherIdle /\ EventsIdle /\ UsageIdle /\ ExtIdle

NextQueue ==
    \/ \E args \in DispatchArgs : send_deployment_to_sqs(args)
    \/ DeliverBatch
    \/ ProcessRecord
    \/ ConsumerRunStep
    \/ AfterRun
    \/ ReturnResponse
    \/ Acknowledge

SpecQueue == InitQueue /\ [][NextQueue]_vars

\* A stored project as the aggregator reads it: a LIVE or FAILED project has
\* been deployed and has its function; a BUILDING one is in its first run
UsageItem(project_id, github_repo, organization_id, status, memory) ==
    [f \in DOMAIN NewProject(github_repo, 0)
                \cup {"organization_id", "memory", "env_vars"} |->
        CASE f = "status" -> status
          [] f = "env_vars" -> EmptyDict
          [] f = "function_name" ->
                IF status = "BUILDING" THEN None
                ELSE ProjectName(GithubUrl(github_repo), project_id)
          [] f = "function_url" ->
                IF status = "BUILDING" THEN None
                ELSE FunctionUrl(get_lambda_function_name(
                        ProjectName(GithubUrl(github_repo), project_id)))
          [] f = "organization_id" -> organization_id
          [] f = "memory" -> memory
          [] OTHER -> NewProject(github_repo, 0)[f]]

SecondProject == <<"a","b","c","d","e","f","0","1","0","0","0","2">>
ThirdProject == <<"9","b","c","d","e","f","0","1","0","0","0","1">>
SecondRepo == <<"o","/","a","_","b",".","g","i","t">>
FunctionOf(project_id, github_repo) ==
    get_lambda_function_name(ProjectName(GithubUrl(github_repo), project_id))

\* Usage Aggregator: three stored projects of one or two organizations (the
\* third may have none), deployed or not, with the invocations of their
\* functions in the window; the billing key may be missing.
InitUsage ==
    /\ \E s1 \in {"LIVE", "FAILED"}, m1 \in {1024, 2048},
          t1 \in {<<>>, <<500, 1500>>, <<2000>>, <<0>>, <<333, 666>>},
          o2 \in {Org1, Org2}, s2 \in {"LIVE", "BUILDING"},
          t2 \in {<<>>, <<250>>, <<2000>>},
          o3 \in {None, Org2}, t3 \in {<<>>, <<500, 1500>>},
          key \in {Unset, SetTo("configured")} :
        /\ s2 = "BUILDING" => t2 = <<>>
        /\ projects =
            [p \in {FirstProject, SecondProject, ThirdProject} |->
                CASE p = FirstProject ->
                        UsageItem(p, FirstRepo, Org1, s1, m1)
                  [] p = SecondProject ->
                        UsageItem(p, SecondRepo, o2, s2, 512)
                  [] OTHER ->
                        UsageItem(p, FirstRepo, o3, "LIVE", 1024)]
        /\ usage = [IdleUsage EXCEPT !.telemetry =
            [f \in {FunctionOf(FirstProject, FirstRepo),
                    FunctionOf(SecondProject, SecondRepo),
                    FunctionOf(ThirdProject, FirstRepo)} |->
                CASE f = FunctionOf(FirstProject, FirstRepo) -> t1
                  [] f = FunctionOf(SecondProject, SecondRepo) -> t2
                  [] OTHER -> t3]]
        /\ environ = [ AWS_LAMBDA_FUNCTION_NAME |-> SetTo("configured"),
                       DEPLOY_QUEUE_URL |-> SetTo("configured"),
                       AUTUMN_API_KEY |-> key ]
    /\ deployments = {}
    /\ builds = {}
    /\ runs = [r \in Runs |-> IdleRun]
    /\ now = 0
    /\ ConsumerIdle /\ ResourcesNone /\ ProvisionerIdle /\ FilterIdle
    /\ DispatcherIdle /\ EventsIdle /\ ExtIdle

NextUsage == Aggregate

SpecUsage == InitUsage /\ [][NextUsage]_vars


\* Event entry point: a stored LIVE project of an organization whose function
\* has telemetry; events of every shape are posted to /events, and a routed
\* batch is handled by the consumer.
InitEvents ==
    /\ projects = [p \in {FirstProject} |->
                    UsageItem(p, FirstRepo, Org1, "LIVE", 1024)]
    /\ usage = [IdleUsage EXCEPT !.telemetry =
                    [f \in {FunctionOf(FirstProject, FirstRepo)} |-> <<500, 1500>>]]
    /\ environ = [ AWS_LAMBDA_FUNCTION_NAME |-> SetTo("configured"),
                   DEPLOY_QUEUE_URL |-> SetTo("configured"),
                   AUTUMN_API_KEY |-> SetTo("configured") ]
    /\ deployments = {}
    /\ builds = {}
    /\ runs = [r \in Runs |-> IdleRun]
    /\ now = 1
    /\ ConsumerIdle /\ ResourcesNone /\ ProvisionerIdle /\ FilterIdle
    /\ DispatcherIdle /\ EventsIdle /\ ExtIdle

NextEvents ==
    \/ \E event \in Envelopes : handle_events(event)
    \/ ProcessRecord
    \/ ConsumerRunStep
    \/ AfterRun
    \/ ReturnResponse

SpecEvents == InitEvents /\ [][NextEvents]_vars

\* A stored project and the operations on it: pipeline runs started by
\* redeploys, which the platform may end while they wait for the build, the
\* requests that edit or delete the project, and the scheduled aggregation.
InitStuck ==
    /\ projects = [p \in {FirstProject} |->
                    UsageItem(p, FirstRepo, Org1, "BUILDING", 1024)]
    /\ usage = [IdleUsage EXCEPT !.telemetry =
                    [f \in {FunctionOf(FirstProject, FirstRepo)} |-> <<>>]]
    /\ environ = [ AWS_LAMBDA_FUNCTION_NAME |-> Unset,
                   DEPLOY_QUEUE_URL |-> Unset,
                   AUTUMN_API_KEY |-> SetTo("configured") ]
    /\ deployments = {}
    /\ builds = {}
    /\ runs = [r \in Runs |-> IdleRun]
    /\ now = 0
    /\ ConsumerIdle /\ ResourcesNone /\ ProvisionerIdle /\ FilterIdle
    /\ DispatcherIdle /\ EventsIdle /\ ExtIdle

NextStuck ==
    \/ redeploy_project(FirstProject, TRUE)
    \/ \E r \in Runs : RunStep(r)
    \/ \E r \in Runs : ExecutionTimeout(r)
    \/ update_project_env_vars(FirstProject, [items |-> << <<MY_VAR, "y">> >>])
    \/ update_project_fields(FirstProject, [memory |-> 2048])
    \/ delete_project_endpoint(FirstProject)
    \/ Aggregate

SpecStuck == InitStuck /\ [][NextStuck]_vars

\* The aggregator reads its window under any setting of the environment.
InitWindow ==
    /\ PipelineEmpty /\ ConsumerIdle /\ ResourcesNone /\ ProvisionerIdle
    /\ FilterIdle /\ EnvironLocal /\ DispatcherIdle /\ EventsIdle /\ UsageIdle
    /\ alloc = IdleAlloc /\ removal = IdleRemoval /\ detect = IdleDetect
    /\ listing = IdleListing
    /\ \E setting \in WindowSettings : window = [IdleWindow EXCEPT !.setting = setting]
NextWindow == GetAggregationWindow
SpecWindow == InitWindow /\ [][NextWindow]_vars

\* Usage Aggregator and the billing service: three LIVE projects of two
\* organizations, a scheduled run and one manual re-run in the same window;
\* the billing service may fail the requests of one entity and feature.
BillingRequests == {Org1, Org2} \X {"invocations", "compute"}
InitBilling ==
    /\ \E t1 \in {<<>>, <<500, 1500>>}, o2 \in {Org1, Org2},
          t2 \in {<<250>>, <<2000>>},
          fails \in {{}} \cup {{r} : r \in BillingRequests} :
        /\ projects =
            [p \in {FirstProject, SecondProject, ThirdProject} |->
                CASE p = FirstProject ->
                        UsageItem(p, FirstRepo, Org1, "LIVE", 1024)
                  [] p = SecondProject ->
                        UsageItem(p, SecondRepo, o2, "LIVE", 512)
                  [] OTHER ->
                        UsageItem(p, FirstRepo, Org2, "LIVE", 1024)]
        /\ usage = [IdleUsage EXCEPT
                !.reruns = 1,
                !.billing_fails = fails,
                !.telemetry =
                    [f \in {FunctionOf(FirstProject, FirstRepo),
                            FunctionOf(SecondProject, SecondRepo),
                            FunctionOf(ThirdProject, FirstRepo)} |->
                        CASE f = FunctionOf(FirstProject, FirstRepo) -> t1
                          [] f = FunctionOf(SecondProject, SecondRepo) -> t2
                          [] OTHER -> <<500, 1500>>]]
        /\ environ = [ AWS_LAMBDA_FUNCTION_NAME |-> SetTo("configured"),
                       DEPLOY_QUEUE_URL |-> SetTo("configured"),
                       AUTUMN_API_KEY |-> SetTo("configured") ]
    /\ deployments = {}
    /\ builds = {}
    /\ runs = [r \in Runs |-> IdleRun]
    /\ now = 0
    /\ ConsumerIdle /\ ResourcesNone /\ ProvisionerIdle /\ FilterIdle
    /\ DispatcherIdle /\ EventsIdle /\ ExtIdle

NextBilling == Aggregate

SpecBilling == InitBilling /\ [][NextBilling]_vars

\* Project creation: the store holds projects whose subdomains are the slug
\* "my-app" and suffixed forms of it, and creation requests arrive.
StoredSubdomains ==
    LET base == <<"m","y","-","a","p","p">>
        s1 == Suffixed(base, <<"0","a","1","b">>)
        s2 == Suffixed(base, <<"f","f","f","f">>)
        l1 == Suffixed(base, <<"0","a","1","b","0","0","0","0">>)
    IN  { <<>>, <<base>>, <<base, s1>>, <<base, s1, s2>>, <<base, s1, s2, l1>> }
InitCreate ==
    /\ PipelineEmpty /\ ConsumerIdle /\ ResourcesNone /\ ProvisionerIdle
    /\ FilterIdle /\ EnvironLocal /\ DispatcherIdle /\ EventsIdle /\ UsageIdle
    /\ window = IdleWindow /\ removal = IdleRemoval /\ detect = IdleDetect
    /\ listing = IdleListing
    /\ \E stored \in StoredSubdomains :
          alloc = [IdleAlloc EXCEPT !.table =
                      {SubdomainItem(<<"old", k>>, stored[k], stored[k]) :
                          k \in DOMAIN stored}]
NextCreate ==
    \E c \in Creators :
        \/ \E name \in ProjectNames : CreateProjectBegin(c, name)
        \/ SubdomainCheck(c)
        \/ PutItem(c)
SpecCreate == InitCreate /\ [][NextCreate]_vars

\* Deleting the stored project: it was deployed, under the name stored with it
\* or, for an older project, under the name derived from its repository; any
\* of its four cloud resources may already be gone.
InitDelete ==
    /\ \E stored_name \in BOOLEAN :
        /\ projects =
            [p \in {FirstProject} |->
                [NewProject(FirstRepo, 0) EXCEPT
                    !.status = "LIVE",
                    !.function_url = FunctionUrl(get_lambda_function_name(FirstName)),
                    !.function_name = IF stored_name THEN FirstName ELSE None]]
        /\ \E cloud \in SUBSET CloudResources(
                            IF stored_name THEN FirstName
                            ELSE extract_project_name(GithubUrl(FirstRepo)),
                            FirstProject) :
              resources = cloud
    /\ deployments = update_deployment(
            create_deployment({}, FirstProject, NewBuildId(0),
                              generate_deploy_id(0), 0),
            FirstProject, generate_deploy_id(0),
            [status |-> "SUCCEEDED", finished_at |-> isoformat(0)])
    /\ builds = {NewBuildId(0)}
    /\ runs = [r \in Runs |-> IdleRun]
    /\ now = 0
    /\ ConsumerIdle /\ ProvisionerIdle /\ FilterIdle
    /\ EnvironLocal /\ DispatcherIdle /\ EventsIdle /\ UsageIdle
    /\ window = IdleWindow /\ alloc = IdleAlloc /\ removal = IdleRemoval
    /\ detect = IdleDetect /\ listing = IdleListing

NextDelete ==
    \/ \E p \in {FirstProject, SecondProject} : DeleteProjectBegin(p)
    \/ DeleteLambda
    \/ DeleteEcrRepository
    \/ DeleteLambdaLogs
    \/ DeleteStoredDeployments
    \/ DeleteProjectStored

\* once the request is accepted, the handler runs until it returns or raises:
\* every cloud and State Store request comes back
SpecDelete ==
    /\ InitDelete /\ [][NextDelete]_vars
    /\ WF_vars(DeleteLambda) /\ WF_vars(DeleteEcrRepository)
    /\ WF_vars(DeleteLambdaLogs) /\ WF_vars(DeleteStoredDeployments)
    /\ WF_vars(DeleteProjectStored)

\* One detection: a repository of the project's github_url, a root directory,
\* and any of the five marker files present under that directory.
InitDetect ==
    /\ PipelineEmpty /\ ConsumerIdle /\ ResourcesNone /\ ProvisionerIdle
    /\ FilterIdle
    /\ EnvironLocal /\ DispatcherIdle /\ EventsIdle /\ UsageIdle
    /\ window = IdleWindow /\ alloc = IdleAlloc /\ removal = IdleRemoval
    /\ listing = IdleListing
    /\ \E github_repo \in DetectRepos, root_directory \in RootDirectories,
          present \in SUBSET (1..5) :
        detect = [IdleDetect EXCEPT
            !.github_url = GithubUrl(github_repo),
            !.root_directory = root_directory,
            !.hosted = { <<RepoOf(GithubUrl(github_repo))[1],
                           RepoOf(GithubUrl(github_repo))[2],
                           RootPath(root_directory) \o MarkerFiles[i]>> :
                         i \in present }]

NextDetect == DetectRuntime

SpecDetect == InitDetect /\ [][NextDetect]_vars

ListedProjects == {FirstProject, SecondProject}

\* Deployment records are created, in the same second or the next, and the
\* Deployments of a project are listed.
InitList ==
    /\ PipelineEmpty /\ ConsumerIdle /\ ResourcesNone /\ ProvisionerIdle
    /\ FilterIdle /\ AuxIdle

NextList ==
    \/ \E p \in ListedProjects, seconds \in {0, 1}, deploy_id \in DeployIds :
          ListedCreate(p, seconds, deploy_id)
    \/ ListDeployments(FirstProject)

SpecList == InitList /\ [][NextList]_vars

\* Runs of one project that do not overlap: the project is created, and
\* redeployed only once no run of it is in flight; no run is ended from
\* outside.
NoRunInFlight == \A r \in Runs : runs[r].pc \in {"idle", "returned", "raised"}

InitSerial ==
    PipelineEmpty /\ ConsumerIdle /\ ResourcesNone /\ ProvisionerIdle /\ FilterIdle
    /\ AuxIdle

NextSerial ==
    \/ \E p \in PipelineProjectIds, g \in PipelineRepos, tok \in BOOLEAN :
            NoRunInFlight /\ create_new_project(p, g, tok)
    \/ \E p \in PipelineProjectIds, tok \in BOOLEAN :
            NoRunInFlight /\ redeploy_project(p, tok)
    \/ \E r \in Runs : RunStep(r)

SpecSerial == InitSerial /\ [][NextSerial]_vars

\* Redeploys of a deployed project, one after the other: the stored item has the
\* subdomain and the configuration that create_project wrote, and the URL and
\* resource name of its successful deployment
DeployedProject ==
    [ status |-> "LIVE",
      function_url |-> FunctionUrl(get_lambda_function_name(FirstName)),
      function_name |-> FirstName,
      github_url |-> GithubUrl(FirstRepo),
      subdomain |-> <<"a","p","p">>,
      env_vars |-> DictSet(EmptyDict, <<"K">>, <<"v">>),
      memory |-> 1024,
      created_at |-> isoformat(0),
      updated_at |-> isoformat(0) ]

InitStored ==
    /\ projects = [p \in {FirstProject} |-> DeployedProject]
    /\ deployments = update_deployment(
            create_deployment({}, FirstProject, NewBuildId(0),
                              generate_deploy_id(0), 0),
            FirstProject, generate_deploy_id(0),
            [status |-> "SUCCEEDED", finished_at |-> isoformat(0)])
    /\ builds = {NewBuildId(0)}
    /\ runs = [r \in Runs |-> IdleRun]
    /\ now = 1
    /\ ConsumerIdle /\ ResourcesNone /\ ProvisionerIdle /\ FilterIdle /\ AuxIdle

NextStored ==
    \/ \E p \in PipelineProjectIds, tok \in BOOLEAN :
            NoRunInFlight /\ redeploy_project(p, tok)
    \/ \E r \in Runs : RunStep(r)

SpecStored == InitStored /\ [][NextStored]_vars

-----------------------------------------------------------------------------
(* Properties of the pipeline                                              *)

Has(log, event) == \E i \in DOMAIN log : log[i] = event
Pos(log, event) == CHOOSE i \in DOMAIN log :
                      log[i] = event /\ \A j \in 1..(i - 1) : log[j] # event

\* the items of the deployments table that run r's build or callback made
RunDeployments(deps, r) ==
    {d \in deps : d.deploy_id = generate_deploy_id(r) \/ d.build_id = NewBuildId(r)}

\* run r's frame ends on this step by returning
Returns(r) == runs[r].pc # "returned" /\ runs'[r].pc = "returned"

\* What the failure handler leaves behind for a run whose try block raised
FailureHandled(run, r, projs, deps) ==
    /\ projs[run.project_id].status = "FAILED"
    /\ IF run.deployment # None
       THEN \E d \in list_deployments(deps, run.project_id) :
                /\ d.deploy_id = run.deployment
                /\ d.status = "FAILED"
                /\ d.finished_at # None
       ELSE RunDeployments(deps, r) = {}

C2_OneTerminalWrite ==
    [][\A d \in deployments :
            d.status \in {"SUCCEEDED", "FAILED"} => d \in deployments']_vars

StepEvents ==
    {"detect", "registry", "build_setup", "start_build", "callback", "poll",
     "provision"}

C4_CallbackBeforeWait ==
    \A r \in Runs :
        LET run == runs[r] IN
        /\ Has(run.log, "callback") =>
                /\ Has(run.log, "start_build")
                /\ Pos(run.log, "start_build") < Pos(run.log, "callback")
        /\ Has(run.log, "poll") =>
                /\ Has(run.log, "callback")
                /\ Pos(run.log, "callback") < Pos(run.log, "poll")
                /\ \E d \in list_deployments(deployments, run.project_id) :
                        d.deploy_id = run.deployment /\ d.build_id = run.build_id
        /\ run.pc = "wait" =>
                \E d \in list_deployments(deployments, run.project_id) :
                    /\ d.deploy_id = run.deployment
                    /\ d.build_id = run.build_id
                    /\ d.build_id \in builds
                    /\ d.status = "IN_PROGRESS"
        /\ run.deployment # None =>
                \E d \in list_deployments(deployments, run.project_id) :
                    d.deploy_id = run.deployment /\ d.build_id = NewBuildId(r)

\* C4 witness: a run whose wait failed is in its failure handler, and its
\* Deployment carries the build id.
C4_Witness ==
    \E r \in Runs :
        /\ runs[r].failed \in {"wait_raise", "wait_false"}
        /\ Has(runs[r].log, "poll")
        /\ \E d \in deployments :
                d.deploy_id = runs[r].deployment /\ d.build_id = runs[r].build_id

\* C7: two redeploy runs of one project whose builds both started have two
\* distinct Deployment items; every run of a project derives the same
\* resource name, the one stored on the Project if one is stored; and the
\* function_name stored on a Project never changes once it is set.
C7_RedeploysShareName ==
    /\ [](\A r, q \in Runs :
            (r # q /\ runs[r].deployment # None /\ runs[q].deployment # None
                /\ runs[r].project_id = runs[q].project_id) =>
                \E d, e \in list_deployments(deployments, runs[r].project_id) :
                    /\ d # e
                    /\ d.deploy_id = runs[r].deployment
                    /\ e.deploy_id = runs[q].deployment)
    /\ [](\A r, q \in Runs :
            (runs[r].project_name # None /\ runs[q].project_name # None
                /\ runs[r].project_id = runs[q].project_id) =>
                runs[r].project_name = runs[q].project_name)
    /\ [](\A r \in Runs :
            (runs[r].project_name # None
                /\ projects[runs[r].project_id].function_name # None) =>
                runs[r].project_name = projects[runs[r].project_id].function_name)
    /\ [][\A p \in DOMAIN projects :
            projects[p].function_name # None =>
                /\ p \in DOMAIN projects'
                /\ projects'[p].function_name = projects[p].function_name]_vars

\* C7 witness: the builds of two redeploys of the project have started in the
\* same second; each run has its Deployment and both are about to provision
\* under the same name.
C7_Witness ==
    \E r, q \in Runs :
        /\ r # q
        /\ runs[r].pc = "provision" /\ runs[q].pc = "provision"
        /\ runs[r].project_id = runs[q].project_id
        /\ runs[r].project_name = runs[q].project_name
        /\ \E d, e \in deployments :
                /\ d.deploy_id = runs[r].deployment
                /\ e.deploy_id = runs[q].deployment
                /\ d.started_at = e.started_at
        /\ Cardinality(list_deployments(deployments, runs[r].project_id)) = 3

-----------------------------------------------------------------------------
(* Properties of the queue consumer                                        *)

\* the processing of the k-th record raised: its body does not decode or
\* lacks a key, or its run let an exception out of _run_deployment_sync
ProcessingRaised(k) ==
    \/ ~Deployable(sqs.records[k])
    \/ sqs.run_of[k] # 0 /\ runs[sqs.run_of[k]].pc = "raised"

\* the ids of the records among the first n whose processing raised, in order
RaisedIds(n) ==
    LET raised == SelectSeq([k \in 1..n |-> k], ProcessingRaised)
    IN  [j \in DOMAIN raised |-> MessageId(raised[j])]

\* C5: the consumer's failed ids are at every moment exactly the ids of the
\* records handled so far whose processing raised; when it returns, every
\* record of the batch has been handled (a deployable one has had its run,
\* which has ended), and the response lists exactly the ids of the records
\* whose processing raised, or is the 200 response when none did.
C5_ReportsExactlyRaised ==
    /\ Len(sqs.run_of) <= Len(sqs.records)
    /\ sqs.failed_message_ids = RaisedIds(Len(sqs.run_of))
    /\ sqs.st = "done" =>
        /\ Len(sqs.run_of) = Len(sqs.records)
        /\ \A k \in DOMAIN sqs.records :
                Deployable(sqs.records[k]) =>
                    /\ sqs.run_of[k] # 0
                    /\ runs[sqs.run_of[k]].pc \in {"returned", "raised"}
        /\ LET ids == RaisedIds(Len(sqs.records)) IN
            IF ids = <<>>
            THEN "statusCode" \in DOMAIN sqs.response
            ELSE /\ DOMAIN sqs.response = {"batchItemFailures"}
                 /\ sqs.response.batchItemFailures =
                        [j \in DOMAIN ids |-> [itemIdentifier |-> ids[j]]]

\* C5 witness: a batch of three in which the second record raised and the
\* first and third had runs that returned; the response names the second only.
C5_Witness ==
    /\ sqs.st = "done"
    /\ Len(sqs.records) = 3
    /\ sqs.run_of[1] # 0 /\ runs[sqs.run_of[1]].pc = "returned"
    /\ ProcessingRaised(2)
    /\ sqs.run_of[3] # 0 /\ runs[sqs.run_of[3]].pc = "returned"
    /\ sqs.response = [batchItemFailures |-> << [itemIdentifier |-> MessageId(2)] >>]

-----------------------------------------------------------------------------
(* Properties of the resource names                                        *)

\* C6 (as stated): two distinct projects of the same repository derive
\* distinct resource names, and no function or registry is created or updated
\* by two projects of the same repository.
C6_DistinctProjectsDistinctNames ==
    /\ \A p, q \in DOMAIN projects :
            (p # q /\ projects[p].github_url = projects[q].github_url) =>
                ProjectName(projects[p].github_url, p)
                    # ProjectName(projects[q].github_url, q)
    /\ \A x, y \in resources :
            (x.kind = y.kind /\ x.name = y.name /\ x.project_id # y.project_id
                /\ x.project_id \in DOMAIN projects
                /\ y.project_id \in DOMAIN projects) =>
                projects[x.project_id].github_url # projects[y.project_id].github_url

-----------------------------------------------------------------------------
(* Properties of the provisioner and the filter                            *)

\* C8: a call that found the function issues its configuration update only
\* after it has issued the code update and its wait for that update has
\* returned, and never while its own code update is in flight.
C8_CodeThenWaitThenConfig ==
    /\ [](\A c \in Calls :
            /\ Has(calls[c].log, "update_config") =>
                /\ Has(calls[c].log, "update_code")
                /\ Has(calls[c].log, "updated")
                /\ Pos(calls[c].log, "update_code") < Pos(calls[c].log, "updated")
                /\ Pos(calls[c].log, "updated") < Pos(calls[c].log, "update_config")
            /\ calls[c].pc = "update_config" => fn.code_update_of # c)
    /\ [][\A c \in Calls :
            (~Has(calls[c].log, "update_config")
                /\ Has(calls'[c].log, "update_config")) =>
                /\ fn.code_update_of # c
                /\ Has(calls[c].log, "updated")]_vars

\* C8 witness: a call has updated the existing function: code, wait,
\* configuration.
C8_Witness ==
    \E c \in Calls :
        /\ calls[c].pc = "done"
        /\ calls[c].log =
            <<"get_function", "update_code", "updated", "update_config", "ensure_url">>

\* a key the platform reserves: its upper-cased form starts with a reserved
\* prefix or is a reserved name
ReservedKey(key) ==
    \/ \E i \in DOMAIN RESERVED_ENV_PREFIXES :
            LET prefix == RESERVED_ENV_PREFIXES[i] IN
            /\ Len(key) >= Len(prefix)
            /\ \A j \in DOMAIN prefix : UpperChar(key[j]) = prefix[j]
    \/ \E i \in DOMAIN RESERVED_ENV_VARS :
            /\ Len(key) = Len(RESERVED_ENV_VARS[i])
            /\ \A j \in DOMAIN key : UpperChar(key[j]) = RESERVED_ENV_VARS[i][j]

NoReservedKey(keys) == \A i \in DOMAIN keys : ~ReservedKey(keys[i])

BuildRequestClean(request) ==
    /\ NoReservedKey([i \in DOMAIN request.environmentVariablesOverride |->
                        request.environmentVariablesOverride[i].name])
    /\ NoReservedKey(request.build_args)
    /\ NoReservedKey(request.user_args)

\* what start_build hands over for each request environment of the model
BuildRequestsFor == {start_build("token", e) : e \in RequestEnvVars}

\* C9: no reserved key is in the environment a call passes to the platform or
\* in the function's environment, whether the function was created or
\* updated, nor in the environment overrides, build args and ARG/ENV
\* declarations of any build request, whatever env_vars start_build is given.
C9_NoReservedKeyPassed ==
    /\ fn.Environment # None => NoReservedKey(Keys(fn.Environment.Variables))
    /\ \A c \in Calls :
            calls[c].environment # None =>
                NoReservedKey(Keys(calls[c].environment.Variables))
    /\ \A request \in codebuild : BuildRequestClean(request)
    /\ \A request \in BuildRequestsFor : BuildRequestClean(request)

\* C9 witness: one request with a reserved key created the function and
\* another updated it; the function's environment holds the other key only.
C9_Witness ==
    \E c, d \in Calls :
        /\ calls[c].pc = "done" /\ Has(calls[c].log, "create")
        /\ calls[d].pc = "done" /\ Has(calls[d].log, "update_config")
        /\ calls[c].env_vars # None /\ HasKey(calls[c].env_vars, AWS_FOO)
        /\ calls[d].env_vars # None /\ HasKey(calls[d].env_vars, AWS_FOO)
        /\ fn.Environment = [Variables |-> [items |-> << <<MY_VAR, "y">> >>]]
        /\ Cardinality(codebuild) = 1

ExampleEnvVars ==
    [items |-> << <<AWS_FOO, "x">>, <<MY_VAR, "y">>, <<HANDLER, "z">> >>]

\* C10: the result of filter_env_vars partitions the input: every input key
\* is either in the filtered dict, with its value, or in the skipped list,
\* never both, and nothing else is in either; a key is skipped exactly when
\* it is reserved; the documented example gives ({MY_VAR: y}, [AWS_FOO,
\* _HANDLER]); an empty or absent input gives ({}, []).
C10_FilterPartitions ==
    env.called =>
        LET input == IF env.env_vars = None THEN EmptyDict ELSE env.env_vars
            filtered == env.result[1]
            skipped == env.result[2]
            Skipped(key) == \E j \in DOMAIN skipped : skipped[j] = key
        IN  /\ \A i \in DOMAIN input.items :
                    LET key == input.items[i][1] IN
                    /\ HasKey(filtered, key) # Skipped(key)
                    /\ HasKey(filtered, key) =>
                            Lookup(filtered, key) = input.items[i][2]
                    /\ Skipped(key) <=> ReservedKey(key)
            /\ Len(filtered.items) + Len(skipped) = Len(input.items)
            /\ \A i \in DOMAIN filtered.items : HasKey(input, filtered.items[i][1])
            /\ \A j \in DOMAIN skipped : HasKey(input, skipped[j])
            /\ env.env_vars = ExampleEnvVars =>
                    env.result = << [items |-> << <<MY_VAR, "y">> >>],
                                    <<AWS_FOO, HANDLER>> >>
            /\ (env.env_vars = None \/ env.env_vars = EmptyDict) =>
                    env.result = <<EmptyDict, <<>> >>

\* C10 witness: the filter was applied to the documented example.
C10_Witness ==
    /\ env.called
    /\ env.env_vars = ExampleEnvVars
    /\ env.result[2] = <<AWS_FOO, HANDLER>>

-----------------------------------------------------------------------------
(* Properties of the dispatcher and the queue                              *)

\* no durable queue endpoint is available to the process
NoQueueEndpoint ==
    \/ Missing(environ.AWS_LAMBDA_FUNCTION_NAME)
    \/ Missing(environ.DEPLOY_QUEUE_URL)

\* the runs a step starts
StartedBy == {r \in Runs : runs[r].pc = "idle" /\ runs'[r].pc = "start"}

\* C11: every call of the dispatcher takes exactly one of two modes. When no
\* queue endpoint is available (AWS_LAMBDA_FUNCTION_NAME or DEPLOY_QUEUE_URL
\* is unset or empty) the call starts exactly one pipeline run, with its own
\* arguments, and sends nothing to the queue; otherwise it issues exactly one
\* send_message request and starts no run.
C11_ExactlyOneMode ==
    [][ Len(dispatched') = Len(dispatched) + 1 =>
          LET call == dispatched'[Len(dispatched')].args
          IN  IF NoQueueEndpoint
              THEN /\ Cardinality(StartedBy) = 1
                   /\ \A r \in StartedBy :
                        /\ runs'[r].project_id = call.project_id
                        /\ runs'[r].github_url = call.github_url
                        /\ runs'[r].github_token = call.github_token
                   /\ queue' = queue
              ELSE /\ runs' = runs
                   /\ queue'.requests = queue.requests + 1
                   /\ Len(queue'.messages) <= Len(queue.messages) + 1
      ]_vars

\* The deployed environment without a queue URL: the dispatcher has fallen
\* back to a thread, and the queue has received nothing
C11_Witness ==
    /\ ~Missing(environ.AWS_LAMBDA_FUNCTION_NAME)
    /\ Missing(environ.DEPLOY_QUEUE_URL)
    /\ Len(dispatched) = 1
    /\ \E r \in Runs : runs[r].pc = "start"
    /\ queue.requests = 0

\* the dispatcher calls whose send_message the queue service accepted
QueueCalls ==
    {i \in DOMAIN dispatched : dispatched[i].outcome \in {"enqueued", "duplicate"}}
KeyOf(i) ==
    MessageDeduplicationId(dispatched[i].args.project_id, dispatched[i].time)
SameProjectAndSecond(i, j) ==
    /\ dispatched[i].args.project_id = dispatched[j].args.project_id
    /\ dispatched[i].time = dispatched[j].time

StartedMessages ==
    queue.started
        \cup {sqs.records[j].messageId :
                j \in {i \in DOMAIN sqs.run_of : sqs.run_of[i] # 0}}
        \cup (IF sqs.st = "running" THEN {sqs.records[sqs.i].messageId} ELSE {})

\* C12: all messages are sent with one ordering group key, and pipeline runs
\* start in submission order: whenever a run has been started for a message,
\* one has been started for every message the queue accepted before it.
C12_StartsInSubmissionOrder ==
    /\ \A k \in DOMAIN queue.messages :
            queue.messages[k].MessageGroupId = "deployments"
    /\ \A m \in StartedMessages : \A k \in 1..(m - 1) : k \in StartedMessages

\* The consumer is in the run of the second message after it has handled the
\* run of the first
C12_Witness ==
    /\ queue.sent = 2
    /\ sqs.st = "running"
    /\ sqs.records[sqs.i].messageId = 2
    /\ 1 \in StartedMessages

\* the arguments the dispatcher was called with for the message a record carries
SentArgs(record) ==
    dispatched[CHOOSE i \in DOMAIN dispatched :
                    dispatched[i].MessageId = record.messageId].args

\* C14 (as stated): the arguments with which the consumer invokes the pipeline
\* equal the arguments given to the dispatcher at enqueue time.
C14_RoundTrip ==
    sqs.st = "running" =>
        ConsumerArgs(sqs.records[sqs.i]) = SentArgs(sqs.records[sqs.i])

\* `env_vars or {}`
OrEmpty(env_vars) == IF env_vars = None THEN EmptyDict ELSE env_vars

\* C14 (amended): the consumer invokes the pipeline with the arguments given
\* to the dispatcher, except that absent environment variables (None) arrive
\* as an empty map, for which the pipeline configures the same environment;
\* the run starts with the project, repository and credential of the request.
C14_RoundTripUpToAbsentEnv ==
    sqs.st = "running" =>
        LET sent == SentArgs(sqs.records[sqs.i])
            call == ConsumerArgs(sqs.records[sqs.i])
        IN  /\ call = [sent EXCEPT !.env_vars = OrEmpty(@)]
            /\ LambdaEnvironment(call.env_vars) = LambdaEnvironment(sent.env_vars)
            /\ runs[sqs.run].project_id = sent.project_id
            /\ runs[sqs.run].pc = "start" =>
                    /\ runs[sqs.run].github_url = sent.github_url
                    /\ runs[sqs.run].github_token = sent.github_token

\* The consumer starts the run of a request that had no environment variables
C14_Witness ==
    /\ sqs.st = "running"
    /\ runs[sqs.run].pc = "start"
    /\ SentArgs(sqs.records[sqs.i]).env_vars = None
    /\ ConsumerArgs(sqs.records[sqs.i]).env_vars = EmptyDict
    /\ ConsumerArgs(sqs.records[sqs.i]).memory = 2048

-----------------------------------------------------------------------------
(* Properties of the Usage Aggregator                                      *)

\* the LIVE projects of a billing entity, and the invocations of a project's
\* function in the window
LiveProjects(org_id) ==
    {p \in DOMAIN projects :
        /\ projects[p].organization_id = org_id
        /\ projects[p].status = "LIVE"}
InWindow(p) ==
    usage.telemetry[get_lambda_function_name(projects[p].function_name)]
InOrder(S) ==
    CHOOSE s \in [1..Cardinality(S) -> S] : \A i, j \in DOMAIN s : i # j => s[i] # s[j]
\* sum of the invocation counts, and of duration (ms) x memory (MB)
InvocationsOf(org_id) ==
    SumOf([i \in 1..Cardinality(LiveProjects(org_id)) |->
            Len(InWindow(InOrder(LiveProjects(org_id))[i]))])
MillisecondMegabytesOf(org_id) ==
    SumOf([i \in 1..Cardinality(LiveProjects(org_id)) |->
            LET p == InOrder(LiveProjects(org_id))[i]
            IN  SumOf(InWindow(p)) * projects[p].memory])
TrackedFor(org_id, feature_id) ==
    SelectSeq(usage.tracked,
              LAMBDA c : c.customer_id = org_id /\ c.feature_id = feature_id)

-----------------------------------------------------------------------------
(* Properties of the event entry point                                     *)

\* the event a step of handle_events has handled, and what the step ran
HandledEvent == events'[Len(events')].event
RanAggregator == usage'.calls = usage.calls + 1
EnteredConsumer == sqs'.st = "loop" /\ sqs'.i = 1 /\ sqs' # sqs

\* envelope inspection, as the claim states it
Scheduled(event) ==
    /\ event.type = "dict"
    /\ event.source.set
    /\ event.source.value = "aws.events"
AsksAggregation(event) ==
    /\ event.detail.set
    /\ event.detail.value.type = "dict"
    /\ event.detail.value.action.set
    /\ event.detail.value.action.value = "aggregate_usage"
FirstRecordFromQueue(event) ==
    /\ event.type = "dict"
    /\ event.Records.set
    /\ Len(event.Records.value) > 0
    /\ event.Records.value[1].type = "dict"
    /\ event.Records.value[1].eventSource.set
    /\ event.Records.value[1].eventSource.value = "aws:sqs"

-----------------------------------------------------------------------------
(* Properties of the build wait, termination and cancellation              *)

\* a step on which run r provisions the compute resource
Provisions(r) == Has(runs'[r].log, "provision") /\ ~Has(runs[r].log, "provision")

\* C16: an iteration of wait_for_build that reads the in-progress status
\* leaves the run waiting; the wait ends with success exactly on the first
\* read of SUCCEEDED and with failure on the first read of any other ended
\* status (FAILED, FAULT, STOPPED, TIMED_OUT), after which deploy_project
\* raises without provisioning; the compute resource is provisioned only by
\* a run whose wait has read SUCCEEDED.
C16_WaitProtocol ==
    [][ \A r \in Runs :
          /\ (runs[r].pc = "wait" /\ runs'[r] # runs[r]) =>
                /\ runs'[r].status = "IN_PROGRESS" =>
                        /\ runs'[r].pc = "wait"
                        /\ runs'[r].failed = ""
                /\ runs'[r].status = "SUCCEEDED" =>
                        /\ runs'[r].pc = "provision"
                        /\ runs'[r].failed = ""
                /\ runs'[r].status \in TerminalStatuses \ {"SUCCEEDED"} =>
                        /\ runs'[r].pc \in {"except_dep", "except_proj"}
                        /\ runs'[r].failed = "wait_false"
                /\ runs'[r].pc = "provision" <=> runs'[r].status = "SUCCEEDED"
                /\ ~Provisions(r)
          /\ (runs[r].pc # "wait" /\ runs[r].pc # "idle") =>
                runs'[r].status \in {runs[r].status, ""}
          /\ Provisions(r) =>
                /\ runs[r].pc = "provision"
                /\ runs[r].status = "SUCCEEDED"
          /\ runs'[r].failed = "wait_false" => ~Has(runs'[r].log, "provision")
      ]_vars

\* A run whose wait first read IN_PROGRESS and then TIMED_OUT is in its
\* failure handler, and nothing has been provisioned
C16_Witness ==
    \E r \in Runs :
        /\ runs[r].status = "TIMED_OUT"
        /\ runs[r].failed = "wait_false"
        /\ runs[r].pc = "except_dep"
        /\ Has(runs[r].log, "poll")
        /\ ~Has(runs[r].log, "provision")

\* the runs of project p that have been started, and those that are over:
\* returned, left by the handler's own exception, or ended by the platform
RunsOf(p) == {r \in Runs : runs[r].pc # "idle" /\ runs[r].project_id = p}
Ended(r) == runs[r].pc \in {"returned", "raised", "timed_out"}

\* C17 (as stated, in the form a finite run refutes): once every run started
\* for a project has ended without an external timeout, the Project is LIVE
\* or FAILED, never PENDING or BUILDING.
C17_EndedRunsLeaveTerminal ==
    \A p \in DOMAIN projects :
        (/\ RunsOf(p) # {}
         /\ \A r \in RunsOf(p) : runs[r].pc \in {"returned", "raised"})
            => projects[p].status \in {"LIVE", "FAILED"}

\* a step of run r's pipeline
StepOf(r) == runs'[r] # runs[r] /\ runs[r].pc # "idle" /\ ~Ended(r)

\* the deployment item of run r, if it is stored
DeploymentOf(r) ==
    {d \in deployments :
        d.project_id = runs[r].project_id /\ d.deploy_id = runs[r].deployment}

\* a run ended by the platform while no other run has been started leaves
\* its project BUILDING and its Deployment IN_PROGRESS, unless deleted
LeftBuilding ==
    \A r \in Runs :
        (runs[r].pc = "timed_out" /\ RunsOf(runs[r].project_id) = {r}) =>
            /\ runs[r].project_id \in DOMAIN projects =>
                    projects[runs[r].project_id].status = "BUILDING"
            /\ \A d \in DeploymentOf(r) : d.status = "IN_PROGRESS"
            /\ runs[r].project_id \in DOMAIN projects => DeploymentOf(r) # {}

\* C18: a waiting run leaves wait_for_build only by reading a status other
\* than IN_PROGRESS, by the read raising, or by being ended from outside;
\* the step that ends it from outside writes nothing, so the Project stays
\* BUILDING and the Deployment IN_PROGRESS; and the status of a stored
\* Project or Deployment is changed only by a step of a pipeline run of that
\* project (for a Deployment, the run that created it): not by the requests
\* that edit the project, the aggregator, or the passing of time.
C18_NoRecovery ==
    [][ /\ \A r \in Runs :
            /\ (runs[r].pc = "wait" /\ runs'[r].pc # "wait") =>
                    \/ runs'[r].pc = "timed_out"
                    \/ runs'[r].status # "IN_PROGRESS"
            /\ (runs[r].pc = "wait" /\ runs'[r].pc = "timed_out") =>
                    UNCHANGED <<projects, deployments, builds>>
        /\ \A p \in DOMAIN projects \cap DOMAIN projects' :
                projects'[p].status # projects[p].status =>
                    \E r \in Runs : StepOf(r) /\ runs[r].project_id = p
        /\ \A d \in deployments : \A e \in deployments' :
                (e.project_id = d.project_id /\ e.SK = d.SK /\ e.status # d.status) =>
                    \E r \in Runs :
                        /\ StepOf(r)
                        /\ runs[r].project_id = d.project_id
                        /\ runs[r].deployment = d.deploy_id
        /\ LeftBuilding'
      ]_vars

\* The only run of the project was ended while waiting; the project has since
\* been edited and the aggregator has run: it is still BUILDING and its
\* Deployment IN_PROGRESS
C18_Witness ==
    /\ runs[1].pc = "timed_out"
    /\ RunsOf(FirstProject) = {1}
    /\ FirstProject \in DOMAIN projects
    /\ projects[FirstProject].status = "BUILDING"
    /\ projects[FirstProject].memory = 2048
    /\ projects[FirstProject].env_vars # EmptyDict
    /\ usage.calls = 1
    /\ \E d \in DeploymentOf(1) : d.status = "IN_PROGRESS"

-----------------------------------------------------------------------------
(* Properties of the aggregation window                                    *)

\* The setting reads as a decimal integer: optional surrounding blanks, an
\* optional sign, then digits (underscores only between digits).
ReadsAsInteger(setting) ==
    /\ setting.set
    /\ LET s == strip(setting.value, " ")
           d == IF s # <<>> /\ Head(s) \in {"+", "-"} THEN Tail(s) ELSE s
       IN  /\ d # <<>>
           /\ d[1] \in Digits /\ d[Len(d)] \in Digits
           /\ \A i \in 1..Len(d) : d[i] \in Digits \cup {"_"}
           /\ \A i \in 1..(Len(d) - 1) : ~(d[i] = "_" /\ d[i + 1] = "_")

\* C21: the aggregation window is always within [60, 86400]: 3600 when the
\* setting is absent or is not an integer, and otherwise the configured value
\* raised to 60 when below it and lowered to 86400 when above it.
C21_WindowClamped ==
    window.called =>
        /\ window.result \in 60..86400
        /\ ~ReadsAsInteger(window.setting) => window.result = 3600
        /\ ReadsAsInteger(window.setting) =>
              LET v == int_str(window.setting.value).value
              IN  window.result = IF v < 60 THEN 60
                                  ELSE IF v > 86400 THEN 86400 ELSE v

\* a negative setting was read, and one above a day
C21_Witness ==
    /\ window.called
    /\ window.setting = SetTo(<<"-", "8">>)
    /\ window.result = 60

-----------------------------------------------------------------------------
(* Properties of the Usage Aggregator under failures                       *)

\* the function whose telemetry is read for a stored project
ReadFor(p) == get_lambda_function_name(projects[p].function_name)

\* Sums over the LIVE projects of an entity, leaving out the projects in
\* `skipped`: invocation counts, and duration (ms) x memory (MB)
InvocationsLeavingOut(org_id, skipped) ==
    SumOf([i \in 1..Cardinality(LiveProjects(org_id)) |->
            LET p == InOrder(LiveProjects(org_id))[i]
            IN  IF p \in skipped THEN 0 ELSE Len(InWindow(p))])
MillisecondMegabytesLeavingOut(org_id, skipped) ==
    SumOf([i \in 1..Cardinality(LiveProjects(org_id)) |->
            LET p == InOrder(LiveProjects(org_id))[i]
            IN  IF p \in skipped THEN 0
                ELSE SumOf(InWindow(p)) * projects[p].memory])

\* the projects one of whose reads failed in the last run, and those whose
\* read of one metric failed
FailedProjects ==
    {p \in DOMAIN projects : \E r \in usage.failed : r[1] = ReadFor(p)}
FailedMetric(metric_name) ==
    {p \in DOMAIN projects : <<ReadFor(p), metric_name>> \in usage.failed}

\* the track calls of the last run report, for every entity, the sums that
\* leave out the given projects
ReportsLeavingOut(skipped_invocations, skipped_duration) ==
    \A org_id \in {Org1, Org2} :
        LET invocations == TrackedFor(org_id, "invocations")
            compute == TrackedFor(org_id, "compute")
            n == InvocationsLeavingOut(org_id, skipped_invocations)
            mm == MillisecondMegabytesLeavingOut(org_id, skipped_duration)
        IN  /\ Len(invocations) = (IF n > 0 THEN 1 ELSE 0)
            /\ n > 0 => invocations[1].value = <<n, 1>>
            /\ Len(compute) = (IF mm > 0 THEN 1 ELSE 0)
            /\ mm > 0 => compute[1].value = Fraction(mm, 1024000)

TrackedIn(entry) == {entry.tracked[i] : i \in DOMAIN entry.tracked}

\* the requests of a run that the billing service did not fail
RecordedIn(entry) ==
    {c \in TrackedIn(entry) :
        <<c.customer_id, c.feature_id>> \notin usage.billing_fails}

\* how many times the ledger holds a usage event
TimesRecorded(c) == Cardinality({k \in DOMAIN usage.ledger : usage.ledger[k] = c})

\* two runs that read the same telemetry: neither raised and the same reads
\* failed in both
SameTelemetry(i, j) ==
    /\ ~usage.history[i].raised /\ ~usage.history[j].raised
    /\ usage.history[i].failed = usage.history[j].failed

-----------------------------------------------------------------------------
(* Properties of subdomain allocation                                      *)

\* generate_unique_subdomain returns to the creation c in this step
ReturnsSubdomain(c) ==
    alloc.creators[c].pc = "check" /\ alloc'.creators[c].pc = "put"

\* C24: whenever generate_unique_subdomain returns, on the fallback path as
\* on the others, no stored project has the subdomain it returns.
C24_ReturnsFreeSubdomain ==
    [][\A c \in Creators :
          ReturnsSubdomain(c) =>
              get_project_by_subdomain(alloc.table, alloc'.creators[c].subdomain) = None]_vars

\* The paths before the fallback: a subdomain returned without the
\* fallback is the slug or the slug with a 4-character suffix, was looked up
\* in the store and found free, after at most 10 suffixed retries.
CheckedPathsReturnFree ==
    [][\A c \in Creators :
          (ReturnsSubdomain(c) /\ ~alloc'.creators[c].fallback) =>
              /\ get_project_by_subdomain(alloc.table, alloc'.creators[c].subdomain) = None
              /\ alloc'.creators[c].attempt <= MAX_SUBDOMAIN_ATTEMPTS
              /\ alloc'.creators[c].checks = alloc'.creators[c].attempt + 1]_vars

\* C25: no two stored projects have the same subdomain.
C25_SubdomainsUnique ==
    \A x, y \in alloc.table : x.subdomain = y.subdomain => x = y

\* two creations whose names slugify equal both found the slug free, and both
\* stored it
RacedCreations ==
    /\ \A c \in {1, 2} : alloc.creators[c].pc = "done" /\ alloc.creators[c].attempt = 0
    /\ alloc.creators[1].name # alloc.creators[2].name
    /\ alloc.creators[1].subdomain = alloc.creators[2].subdomain
    /\ Cardinality(alloc.table) = 2

-----------------------------------------------------------------------------
(* Properties of builds and Deployment records                             *)

\* the builds started, and the Deployments created, in a step
BuildsStarted == builds' \ builds
DeploymentsCreated ==
    {d \in deployments' : ~\E e \in deployments : e.deploy_id = d.deploy_id}

\* C26: a step starts at most one build, for a run that had started none, and
\* creates at most one Deployment, for a run that had created none and whose
\* start_build has returned: the Deployment holds exactly the build id that
\* call returned. Every Deployment references a build that was started, and
\* a run that holds no build id, or whose build never started, has created
\* no Deployment.
C26_OneBuildOneDeployment ==
    [][ /\ Cardinality(BuildsStarted) <= 1
        /\ \A b \in BuildsStarted :
              \E r \in Runs :
                  /\ runs[r].pc = "deploy" /\ runs[r].build_id = None
                  /\ runs'[r].build_id = b
        /\ Cardinality(DeploymentsCreated) <= 1
        /\ \A d \in DeploymentsCreated :
              \E r \in Runs :
                  /\ runs[r].pc = "callback" /\ runs[r].deployment = None
                  /\ runs[r].build_id # None /\ runs[r].build_id \in builds
                  /\ d.build_id = runs[r].build_id
                  /\ d.project_id = runs[r].project_id
                  /\ runs'[r].deployment = d.deploy_id
        /\ \A d \in deployments' : d.build_id \in builds'
        /\ \A r \in Runs :
              /\ (runs[r].deployment = None /\ runs'[r].deployment # None)
                    => \E d \in DeploymentsCreated : d.deploy_id = runs'[r].deployment
              /\ (runs'[r].pc \in {"start", "deploy"}) => runs'[r].deployment = None
              /\ (runs[r].pc = "deploy" /\ runs'[r] # runs[r]
                    /\ runs'[r].build_id = None)
                    => runs'[r].pc = "except_proj"
      ]_vars

\* One run created its Deployment with the id of the build it started; the
\* other run failed before start_build returned and has ended with no
\* Deployment: one build, one Deployment.
C26_Witness ==
    \E r, q \in Runs :
        /\ runs[r].deployment # None
        /\ \E d \in deployments :
              d.deploy_id = runs[r].deployment /\ d.build_id \in builds
        /\ runs[q].pc = "returned" /\ runs[q].failed = "step"
        /\ runs[q].deployment = None
        /\ Cardinality(builds) = 1 /\ Cardinality(deployments) = 1

-----------------------------------------------------------------------------
(* Properties of a deployment request without a credential                 *)

\* run r, dispatched without github_token, takes this step
StepWithoutToken(r) ==
    /\ runs[r].pc \in {"start", "deploy", "except_proj"}
    /\ ~runs[r].github_token
    /\ runs'[r] # runs[r]

\* C30: a run whose request lacks github_token has no side effects: it starts
\* no build, creates no Deployment, and modifies no State Store record.
C30_MissingTokenNoSideEffects ==
    [][\A r \in Runs :
          StepWithoutToken(r) =>
              /\ builds' = builds
              /\ deployments' = deployments
              /\ projects' = projects]_vars

\* What holds of such a run: it calls no collaborator, starts no build and
\* creates no Deployment; deploy_project raises at its first statement, and
\* the only records written are the status of the run's Project.
MissingTokenStartsNothing ==
    [][\A r \in Runs :
          StepWithoutToken(r) =>
              /\ builds' = builds
              /\ deployments' = deployments
              /\ runs'[r].deployment = None /\ runs'[r].build_id = None
              /\ \A i \in DOMAIN runs'[r].log : runs'[r].log[i] = "proj_BUILDING"
              /\ runs[r].pc = "deploy" =>
                    (runs'[r].pc = "except_proj" /\ runs'[r].failed = "token")
              /\ \A p \in DOMAIN projects' :
                    (p \in DOMAIN projects /\ p # runs[r].project_id)
                        => projects'[p] = projects[p]]_vars

-----------------------------------------------------------------------------
(* Properties of the compute provisioner: repeated calls                   *)

\* the function has exactly the image, sizes and filtered environment that
\* the call was given
HasGiven(f, call) ==
    /\ f.exists
    /\ f.ImageUri = call.config.image_uri
    /\ f.MemorySize = (IF call.config.memory = 0 THEN 1024 ELSE call.config.memory)
    /\ f.Timeout = (IF call.config.timeout = 0 THEN 30 ELSE call.config.timeout)
    /\ f.EphemeralStorage = (IF call.config.ephemeral_storage = 0 THEN 512
                             ELSE call.config.ephemeral_storage)
    /\ f.Environment = LambdaEnvironment(call.env_vars)

SameRequest(c, d) ==
    calls[c].env_vars = calls[d].env_vars /\ calls[c].config = calls[d].config

\* call d repeats a call that had returned, and every other call that was
\* made had the same image and configuration and is over
Repeats(d) ==
    /\ \E c \in calls[d].preceded_by : SameRequest(c, d)
    /\ \A e \in Calls \ {d} :
          \/ calls[e].pc = "idle"
          \/ SameRequest(e, d) /\ calls[e].pc \in {"done", "raised"}

C28_EnsureUrlOnce ==
    [][/\ fn'.url_id \in {fn.url_id, fn.url_id + 1}
       /\ fn'.url_id <= 1
       /\ fn'.url_id # fn.url_id =>
            /\ ~fn.url /\ fn.permission
            /\ \E c \in Calls : calls[c].pc = "create_url" /\ calls'[c].pc = "done"
       /\ fn'.permission # fn.permission =>
            \E c \in Calls : calls[c].pc = "add_permission" /\ calls'[c] # calls[c]
       /\ \A c \in Calls :
            /\ (calls[c].pc = "ensure_url" /\ calls'[c] # calls[c]) =>
                  /\ fn' = fn
                  /\ fn.url => (calls'[c].pc = "done" /\ calls'[c].result = UrlOf(fn.url_id))
                  /\ ~fn.url => calls'[c].pc = "add_permission"
            /\ (calls[c].pc = "add_permission" /\ calls'[c] # calls[c]) =>
                  /\ calls'[c].pc = "create_url"
                  /\ fn'.permission /\ fn'.url = fn.url
            /\ calls'[c].pc = "done" =>
                  /\ fn'.url
                  /\ calls'[c].result = UrlOf(1)
      ]_vars

\* One call found no URL, granted the permission and created the URL; a later
\* call found the URL and returned it without granting or creating anything.
C28_Witness ==
    \E c, d \in Calls :
        /\ calls[c].pc = "done" /\ Has(calls[c].log, "create_url")
        /\ Has(calls[c].log, "add_permission")
        /\ calls[d].pc = "done" /\ c \in calls[d].preceded_by
        /\ ~Has(calls[d].log, "create_url") /\ ~Has(calls[d].log, "add_permission")
        /\ calls[d].result = calls[c].result /\ calls[c].result = UrlOf(1)
        /\ fn.url_id = 1

-----------------------------------------------------------------------------
(* Properties of the delete paths                                          *)

\* the delete request has gone through the delete functions without one of
\* them raising: only a failed State Store request raises
NoDeleteFunctionRaises == removal.raised \in {"", "store"}

\* what the delete functions report for the resources that were missing when
\* the request arrived
MissingReported ==
    removal.pc = "responded" =>
        /\ removal.response.deleted
        /\ "function" \notin removal.found => ~removal.response.lambda_deleted
        /\ "registry" \notin removal.found => ~removal.response.ecr_deleted
        /\ get_project(projects, removal.project_id) = None
        /\ list_deployments(deployments, removal.project_id) = {}

\* the request is past the resource deletions and has returned or raised
DeleteSettled == removal.pc \in {"responded", "raised"}

\* C29: a resource that is already missing is not an error on the delete
\* paths. No delete function raises on a missing function, URL configuration,
\* registry or log group; a request for a project whose cloud resources are
\* gone goes on to remove the stored project and its deployments and answers
\* deleted, and raises only when the State Store request itself fails.
C29_MissingResourceNotAnError ==
    /\ [](NoDeleteFunctionRaises /\ MissingReported)
    /\ (removal.pc = "lambda" ~> DeleteSettled)

\* a project with no cloud resource left has been deleted
C29_Witness ==
    /\ removal.pc = "responded"
    /\ removal.found = {}
    /\ removal.response = [deleted |-> TRUE, lambda_deleted |-> FALSE,
                           ecr_deleted |-> FALSE, logs_deleted |-> TRUE]
    /\ DOMAIN projects = {}

-----------------------------------------------------------------------------
(* Properties of runtime detection                                         *)

\* the i-th marker file exists under the root directory of the repository
\* that github_url names, and the probe for it got an answer
MarkerSeen(i) ==
    /\ <<RepoOf(detect.github_url)[1], RepoOf(detect.github_url)[2],
         RootPath(detect.root_directory) \o MarkerFiles[i]>> \in detect.hosted
    /\ detect.outcomes[i] = "answer"

\* C31: detection probes package.json first and then the four Python marker
\* files; it returns "nodejs" exactly when package.json exists under the root
\* directory (a probe that fails counts as absent) and "python" otherwise,
\* with the warning only when no marker was found; it never raises.
C31_DetectsRuntime ==
    detect.called =>
        /\ ~detect.result.raised
        /\ detect.result.returns \in {"nodejs", "python"}
        /\ detect.result.returns = "nodejs" <=> MarkerSeen(1)
        /\ detect.result.warned <=> \A i \in 1..5 : ~MarkerSeen(i)

\* the repository name and the root directory are ones that the character
\* stripping leaves intact
StrippingHarmless ==
    /\ UrlParts(detect.github_url)[Len(UrlParts(detect.github_url))]
            = RepoOf(detect.github_url)[2]
    /\ path_prefix(detect.root_directory) = RootPath(detect.root_directory)

\* for those inputs detection is as described, and for all inputs it returns
\* a runtime without raising
DetectsRuntimeWhenIntact ==
    detect.called =>
        /\ ~detect.result.raised
        /\ detect.result.returns \in {"nodejs", "python"}
        /\ StrippingHarmless =>
            /\ detect.result.returns = "nodejs" <=> MarkerSeen(1)
            /\ detect.result.warned <=> \A i \in 1..5 : ~MarkerSeen(i)

-----------------------------------------------------------------------------
(* Properties of listing Deployments                                       *)

\* Deployment x is newer than y: created in a later second, or in the same
\* second with the greater id
Newer(x, y) ==
    \/ x.SK[2] > y.SK[2]
    \/ x.SK[2] = y.SK[2] /\ StringLess(y.deploy_id, x.deploy_id)

\* i is the place of item x in sequence s
Place(s, x) == CHOOSE i \in DOMAIN s : s[i] = x

\* the listing returned exactly the Deployments of its project, newest first
ListedNewestFirst(l) ==
    /\ {l.result[i] : i \in DOMAIN l.result} = list_deployments(l.store, l.project_id)
    /\ Len(l.result) = Cardinality(list_deployments(l.store, l.project_id))
    /\ \A i, j \in DOMAIN l.result : i < j => Newer(l.result[i], l.result[j])

\* C32: list_deployments returns all Deployments of the project, newest
\* first by (creation timestamp, deployment id). The order is total: two
\* Deployments that two listings both return are in the same relative order
\* in both, also when their timestamps are equal, and two listings of a
\* project whose Deployments did not change return the same sequence.
C32_ListedNewestFirstStable ==
    listing.result # None =>
        /\ ListedNewestFirst(listing)
        /\ (listing.before.result # None
                /\ listing.before.project_id = listing.project_id) =>
            /\ \A x, y \in list_deployments(listing.store, listing.project_id)
                        \cap list_deployments(listing.before.store, listing.project_id) :
                    Place(listing.result, x) < Place(listing.result, y)
                        <=> Place(listing.before.result, x) < Place(listing.before.result, y)
            /\ list_deployments(listing.store, listing.project_id)
                    = list_deployments(listing.before.store, listing.project_id)
                => listing.result = listing.before.result

\* a project with two Deployments of the same second has been listed twice
C32_Witness ==
    /\ listing.result # None
    /\ listing.before.result # None
    /\ listing.before.project_id = listing.project_id
    /\ listing.before.result = listing.result
    /\ Len(listing.result) >= 2
    /\ listing.result[1].SK[2] = listing.result[2].SK[2]
    /\ listing.result[1].deploy_id # listing.result[2].deploy_id

-----------------------------------------------------------------------------
(* Properties of status writes under overlapping runs                      *)

\* run r takes the step from pc `from` to pc `to`
Moves(r, from, to) == runs[r].pc = from /\ runs'[r].pc = to

\* the Deployment that run r created, after the step
DeploymentAfter(r) ==
    CHOOSE d \in deployments' :
        d.project_id = runs[r].project_id /\ d.deploy_id = runs[r].deployment

\* C33: a status write of a run is applied whatever the stored status is and
\* whatever the other run has written: after the step that makes the write
\* the Project (the Deployment) has the status written. The Project's status
\* changes in no other step, so it is always the status written last.
C33_LastWriterWins ==
    [][ /\ \A r \in Runs :
            /\ Moves(r, "start", "deploy")
                  => projects'[runs[r].project_id].status = "BUILDING"
            /\ Moves(r, "proj_live", "returned")
                  => /\ projects'[runs[r].project_id].status = "LIVE"
                     /\ projects'[runs[r].project_id].function_url = runs[r].function_url
            /\ Moves(r, "except_proj", "returned")
                  => projects'[runs[r].project_id].status = "FAILED"
            /\ Moves(r, "dep_succeeded", "proj_live")
                  => DeploymentAfter(r).status = "SUCCEEDED"
            /\ Moves(r, "except_dep", "except_proj")
                  => DeploymentAfter(r).status = "FAILED"
        /\ \A p \in DOMAIN projects :
              projects'[p].status # projects[p].status
                  => \E r \in Runs :
                        /\ runs[r].project_id = p
                        /\ \/ Moves(r, "start", "deploy")
                           \/ Moves(r, "proj_live", "returned")
                           \/ Moves(r, "except_proj", "returned")
      ]_vars

\* Two runs of the project overlapped; the one that started later succeeded
\* and wrote LIVE, and the one that started first failed and wrote FAILED
\* after it: the Project is FAILED although the later run's Deployment
\* succeeded.
C33_Witness ==
    /\ runs[1].pc = "returned" /\ runs[1].failed = "step"
    /\ runs[2].pc = "returned" /\ runs[2].failed = ""
    /\ runs[1].project_id = runs[2].project_id
    /\ projects[runs[1].project_id].status = "FAILED"
    /\ \E d \in deployments :
          d.deploy_id = runs[2].deployment /\ d.status = "SUCCEEDED"
    /\ \E d \in deployments :
          d.deploy_id = runs[1].deployment /\ d.status = "FAILED"
          /\ d.finished_at = isoformat(now)

-----------------------------------------------------------------------------
(* Properties of Deployment records and deleted projects                   *)

\* C34: every stored Deployment record belongs to a Project that exists in
\* the State Store: once a project is deleted no Deployment record of it
\* exists or is created, also when a run of the project is in flight.
C34_DeploymentsBelongToProjects ==
    \A d \in deployments : get_project(projects, d.project_id) # None

\* a Deployment record without its Project is one that a run of the deleted
\* project created
DeploymentsBelongUnlessInFlight ==
    \A d \in deployments :
        get_project(projects, d.project_id) = None
            => \E r \in Runs :
                  runs[r].project_id = d.project_id /\ runs[r].deployment = d.deploy_id

-----------------------------------------------------------------------------
(* Properties of failed deployments in the queue consumer                  *)

\* the ids the consumer has reported failed so far
ReportedFailed ==
    {sqs.failed_message_ids[j] : j \in DOMAIN sqs.failed_message_ids}

\* the itemIdentifiers of the consumer's response, which the queue redelivers
BatchItemFailures ==
    IF "batchItemFailures" \in DOMAIN sqs.response
    THEN {sqs.response.batchItemFailures[j].itemIdentifier :
                j \in DOMAIN sqs.response.batchItemFailures}
    ELSE {}

\* the k-th record of the batch has been handled, its deployment failed, and
\* the failure handler of its run completed
DeploymentFailed(k) ==
    /\ k \in DOMAIN sqs.run_of
    /\ sqs.run_of[k] # 0
    /\ runs[sqs.run_of[k]].pc = "returned"
    /\ runs[sqs.run_of[k]].failed # ""

-----------------------------------------------------------------------------
(* Properties of LIVE projects and their Deployments                       *)

\* some Deployment of project p is SUCCEEDED
HasSucceeded(p) ==
    \E d \in list_deployments(deployments, p) : d.status = "SUCCEEDED"

\* C36: with no project deleted, a Project whose status is LIVE has a
\* Deployment with status SUCCEEDED, also while runs of the project overlap:
\* the run that writes LIVE has written its own Deployment SUCCEEDED before,
\* and that Deployment is still SUCCEEDED when LIVE is written.
C36_LiveHasSucceeded ==
    /\ [](\A p \in DOMAIN projects :
            projects[p].status = "LIVE" => HasSucceeded(p))
    /\ [][\A r \in Runs :
            Moves(r, "proj_live", "returned") =>
                \E d \in list_deployments(deployments, runs[r].project_id) :
                    d.deploy_id = runs[r].deployment /\ d.status = "SUCCEEDED"]_vars

\* one run has made the project LIVE while another run of it, which wrote
\* BUILDING before, is waiting for its build with its Deployment IN_PROGRESS
C36_Witness ==
    \E r, q \in Runs :
        /\ r # q
        /\ runs[r].pc = "returned" /\ runs[r].failed = ""
        /\ runs[q].pc = "wait" /\ runs[q].project_id = runs[r].project_id
        /\ projects[runs[r].project_id].status = "LIVE"
        /\ \E d \in deployments :
              d.deploy_id = runs[q].deployment /\ d.status = "IN_PROGRESS"
        /\ \E d \in deployments :
              d.deploy_id = runs[r].deployment /\ d.status = "SUCCEEDED"

-----------------------------------------------------------------------------
(* Properties of IN_PROGRESS Deployments when runs do not overlap          *)

InProgress(p) ==
    {d \in list_deployments(deployments, p) : d.status = "IN_PROGRESS"}

\* what C37 says of project p
InProgressOnlyWhileBuilding(p) ==
    /\ InProgress(p) # {} => projects[p].status = "BUILDING"
    /\ Cardinality(InProgress(p)) <= 1
    /\ (\A r \in Runs : runs[r].project_id = p => runs[r].pc \in {"returned", "raised"})
            => InProgress(p) = {}

\* C37: when the runs of a project do not overlap and none is stopped
\* mid-way, a Deployment is IN_PROGRESS only while its Project is BUILDING,
\* at most one Deployment of a project is IN_PROGRESS at a time, and none is
\* once every run of the project has ended.
C37_InProgressOnlyWhileBuilding ==
    \A p \in DOMAIN projects : InProgressOnlyWhileBuilding(p)

\* the same, for the projects of which no run has ended by raising out of
\* its failure handler
InProgressOnlyWhileBuildingUnlessRaised ==
    \A p \in DOMAIN projects :
        (\A r \in Runs : runs[r].project_id = p => runs[r].pc # "raised")
            => InProgressOnlyWhileBuilding(p)

-----------------------------------------------------------------------------
(* Properties of a failed redeploy of a deployed project                   *)

\* the fields of a stored Project that a status write leaves alone
KeptFields(item) == DOMAIN item \ {"status", "updated_at"}

StatusWriteKeeps(r) ==
    LET p == runs[r].project_id IN
    /\ DOMAIN projects'[p] = DOMAIN projects[p]
    /\ \A f \in KeptFields(projects[p]) : projects'[p][f] = projects[p][f]

\* C38: the BUILDING write and the FAILED write of a redeploy change only
\* the status (and updated_at) of the stored Project: function_url,
\* function_name, subdomain and the stored configuration are left as they
\* were, so that while the project is BUILDING or FAILED it still holds the
\* URL and the other values of its last successful deployment.
C38_FailedRedeployKeepsFields ==
    /\ [][ \A r \in Runs :
            /\ Moves(r, "start", "deploy")
                  => /\ StatusWriteKeeps(r)
                     /\ projects'[runs[r].project_id].status = "BUILDING"
            /\ Moves(r, "except_proj", "returned")
                  => /\ StatusWriteKeeps(r)
                     /\ projects'[runs[r].project_id].status = "FAILED"
                     /\ projects'[runs[r].project_id].updated_at = isoformat(now)
       ]_vars
    /\ [](\A p \in DOMAIN projects :
            projects[p].status \in {"BUILDING", "FAILED"}
                => \A f \in KeptFields(DeployedProject) :
                        projects[p][f] = DeployedProject[f])

\* a redeploy has failed: the project is FAILED, written later than the
\* deployment that made it LIVE, and still holds that deployment's URL
C38_Witness ==
    \E r \in Runs :
        /\ runs[r].pc = "returned" /\ runs[r].failed # ""
        /\ \A q \in Runs \ {r} : runs[q].pc = "idle"
        /\ FirstProject \in DOMAIN projects
        /\ "subdomain" \in DOMAIN projects[FirstProject]
        /\ projects[FirstProject].status = "FAILED"
        /\ projects[FirstProject].updated_at # DeployedProject.updated_at
        /\ projects[FirstProject].function_url = DeployedProject.function_url
        /\ projects[FirstProject].function_url # None
        /\ projects[FirstProject].subdomain = DeployedProject.subdomain
        /\ projects[FirstProject].env_vars = DeployedProject.env_vars

-----------------------------------------------------------------------------
(* Properties of the environment of an updated function                    *)

\* filter_env_vars(env_vars or {})[0] of the request that call c carries
FilteredOf(c) ==
    filter_env_vars(IF calls[c].env_vars = None THEN EmptyDict
                    ELSE calls[c].env_vars)[1]

\* call c's update_function_configuration is accepted in this step
ConfigurationUpdated(c) ==
    calls[c].pc = "update_config" /\ calls'[c].pc = "ensure_url"

\* C39: when create_or_update_lambda updates an existing function, a request
\* whose filtered environment variables are empty (none given, or all
\* reserved) leaves the function's environment as the previous deployment set
\* it, and only a non-empty filtered map replaces it.
C39_EmptyEnvironmentKept ==
    [][ \A c \in Calls :
            ConfigurationUpdated(c)
                => /\ fn.exists /\ fn'.exists
                   /\ IF FilteredOf(c) = EmptyDict
                      THEN fn'.Environment = fn.Environment
                      ELSE fn'.Environment = [Variables |-> FilteredOf(c)]
      ]_vars

\* a request with only reserved variables has updated the configuration of a
\* function whose environment an earlier deployment set: the function still
\* has that environment
C39_Witness ==
    \E c \in Calls :
        /\ calls[c].pc = "ensure_url"
        /\ calls[c].env_vars # None
        /\ calls[c].env_vars # EmptyDict
        /\ FilteredOf(c) = EmptyDict
        /\ fn.exists
        /\ fn.Environment # None
        /\ fn.Environment.Variables # EmptyDict
        /\ fn.MemorySize = DEFAULT_MEMORY

-----------------------------------------------------------------------------
(* Properties of the State Store deletion of a deleted project             *)

\* the cloud resources of a kind that are left under the name the request
\* deletes, after the step
LeftAfter(kind) ==
    LET full_name == get_lambda_function_name(removal.project_name)
        name == CASE kind = "registry" -> get_ecr_repo_name(removal.project_name)
                  [] kind = "log_group" -> LogGroupName(full_name)
                  [] OTHER -> full_name
    IN  Named(resources', kind, name)

\* the request leaves the step `from`: it goes on to `to`, and a resource of
\* the kind that is still there is reported as not deleted
DeletionReported(from, to, kind, field) ==
    (removal.pc = from /\ removal'.pc # from)
        => /\ removal'.pc = to
           /\ LeftAfter(kind) # {} => ~removal'[field]

StoredRemoved(project_id) ==
    /\ get_project(projects, project_id) = None
    /\ list_deployments(deployments, project_id) = {}

\* C40: deleting a project that exists removes its Project record and all of
\* its Deployment records whatever the cloud-resource deletions did. A
\* function, registry or log group that could not be deleted is reported as
\* false and the request goes on; no cloud deletion makes the request raise;
\* the request always reaches the State Store deletion and, unless a State
\* Store request itself fails, ends with the records removed; and the Project
\* record is removed only after the project's Deployments are.
C40_StoredDeletionRegardless ==
    /\ [][ /\ DeletionReported("lambda", "registry", "function", "lambda_deleted")
           /\ DeletionReported("registry", "logs", "registry", "ecr_deleted")
           /\ DeletionReported("logs", "store", "log_group", "logs_deleted")
           /\ projects' # projects
                => /\ list_deployments(deployments, removal.project_id) = {}
                   /\ get_project(projects', removal.project_id) = None
           /\ deployments' # deployments => projects' = projects
      ]_vars
    /\ [](removal.raised \in {"", "store"})
    /\ [](removal.pc = "responded"
            => /\ StoredRemoved(removal.project_id)
               /\ removal.response =
                    [deleted |-> TRUE,
                     lambda_deleted |-> removal.lambda_deleted,
                     ecr_deleted |-> removal.ecr_deleted,
                     logs_deleted |-> removal.logs_deleted])
    /\ (removal.pc = "lambda"
            ~> (removal.pc = "responded" \/ removal.raised = "store"))

\* every cloud deletion has failed: the function, the registry and the log
\* group are still there and reported as not deleted, and the Project and its
\* Deployments are gone from the State Store
C40_Witness ==
    /\ removal.pc = "responded"
    /\ removal.found = {"function", "url", "registry", "log_group"}
    /\ {x.kind : x \in resources} = {"function", "url", "registry", "log_group"}
    /\ removal.response = [deleted |-> TRUE, lambda_deleted |-> FALSE,
                           ecr_deleted |-> FALSE, logs_deleted |-> FALSE]
    /\ StoredRemoved(FirstProject)
    /\ deployments = {}

====
